---- MODULE Spec2Model ----
(***************************************************************************)
(* A model of video_generator/batch_processor.py: the BatchProcessor, its  *)
(* priority queue of batch jobs, its worker threads and the operations     *)
(* callers run against it (batch creation, cancel_batch, get_batch_status, *)
(* register_progress_callback, start_processing, stop_processing); of one  *)
(* video generation as main_service.py and video_composer.py run it for a  *)
(* batch item, with the filter graph and the command the composer builds;  *)
(* and of the compositions concurrent callers run in the composer's        *)
(* temporary directory.                                                    *)
(*                                                                         *)
(* Threads interleave at the granularity of the accesses to shared state:  *)
(* a worker's step is one of the places where it reads or writes a job,    *)
(* the queue, the running flag or the statistics.                          *)
(***************************************************************************)
EXTENDS Integers, Sequences, FiniteSets, TLC

\* ------------------------------------------------------------------ bounds
MaxJobs == 2          \* batch jobs ever created
MaxItems == 2         \* items of one batch
MaxPriority == 2      \* item priorities are 1..MaxPriority
MaxVideos == 3        \* items of all batches together
MaxThreads == 2       \* worker threads alive at the same time
MaxRequests == 3      \* requests to the asynchronous endpoints of api.py

\* BatchProcessor(video_service, max_concurrent_jobs=1), as test_batch_processor
\* constructs it
max_concurrent_jobs == 1

\* ------------------------------------------------------------------ enums
PENDING == "pending"
RUNNING == "running"
COMPLETED == "completed"
FAILED == "failed"
CANCELLED == "cancelled"

BatchJobStatus == {PENDING, RUNNING, COMPLETED, FAILED, CANCELLED}

\* ProjectStatus values a batch item takes (models.py)
INITIALIZING == "initializing"
ITEM_COMPLETED == "completed"
ITEM_FAILED == "failed"


\* the text str(e) of an exception the video service raises
ErrorTexts == {"video generation failed"}

NoError == ""

JobIds == 1..MaxJobs
Threads == 1..MaxThreads
Requests == 1..MaxRequests

VARIABLES
  is_running,      \* BatchProcessor.is_running
  worker_threads,  \* BatchProcessor.worker_threads: the threads stop_processing joins
  threads,         \* every worker thread: where it is in _worker_thread
  jobs,            \* the BatchJob objects ever created, by id (a sequence)
  job_history,     \* BatchProcessor.job_history: the ids recorded in it
  current_jobs,    \* BatchProcessor.current_jobs: the ids recorded in it
  job_queue,       \* BatchProcessor.job_queue: the heap list of the PriorityQueue
  scheduled,       \* jobs whose scheduling thread has not submitted them yet
  clock,           \* the last reading of time.time() by a submission; 0 while the
                   \* queue is empty, a reading being compared with those of the
                   \* queued entries only
  stats,           \* BatchProcessor.stats
  job_callbacks,   \* BatchProcessor.job_callbacks: the ids a callback is registered for
  ctl,             \* the caller of stop_processing: "idle" or "joining"
  last,            \* what the call of the public interface that has just returned
                   \* gave its caller (NoCall after any other step)
  observe,         \* the calls whose results are kept in last: a behaviour
                   \* records what calls of some kinds return, or none
  project,         \* the video generation in flight that is followed step by
                   \* step through main_service.py and video_composer.py
  polled,          \* what a caller that polls get_batch_status for one job has
                   \* been given: the progress of the last dictionary, and
                   \* whether a dictionary had more progress than the one before
  requests,        \* how many batches, and videos in them, the callers of this
                   \* behaviour ask for at most
  service,         \* the video service as its concurrent callers use it: the
                   \* project ids drawn so far, the composition each calling
                   \* thread is in, and the files written in the composer's
                   \* temp_dir with the project that wrote each
  loaded,          \* the value of a statistic each worker thread has read and
                   \* not yet written back: self.stats[key] += n reads the
                   \* dictionary, adds, and stores, with no lock held
  background_tasks,\* api.background_tasks: the status stored under each task id
  handlers         \* the requests to the asynchronous generation endpoints of
                   \* api.py: where each is, and the task id it computed

vars == <<is_running, worker_threads, threads, jobs, job_history, current_jobs,
          job_queue, scheduled, clock, stats, job_callbacks, ctl, last, observe,
          project, polled, requests, service, loaded,
                 background_tasks, handlers>>

\* ------------------------------------------------------------ data model
\* BatchJobItem(id, type, parameters, priority): pos is the place the caller
\* gave the item in its request, started stands for started_at is not None
BatchJobItem(pos, priority) ==
  [pos |-> pos, priority |-> priority, status |-> INITIALIZING,
   started |-> FALSE, result |-> FALSE, error_message |-> NoError]

\* BatchJob(id, name, type, items): __post_init__ sets total_items.  The name
\* and the type of a job are only reported, and are left out.
BatchJob(items) ==
  [items |-> items, status |-> PENDING, progress |-> 0,
   total_items |-> Len(items), completed_items |-> 0, failed_items |-> 0,
   results |-> <<>>]

IdleThread == [pc |-> "dead", job |-> 0, i |-> 0]

NoCall == [op |-> "none", id |-> 0, ret |-> "", status |-> "", progress |-> 0,
           total_items |-> 0, completed_items |-> 0, failed_items |-> 0,
           kind |-> "", duration |-> 0]

Called(op, id, ret) ==
  IF op \in observe THEN [NoCall EXCEPT !.op = op, !.id = id, !.ret = ret] ELSE NoCall

\* the filter graph and the result of a composition that has none yet
NoFilter == [inputs |-> 0, trim |-> 0, fade_out_start |-> 0, bgm_volume |-> 0,
             voice_volume |-> 0, voice_delay |-> 0, amix |-> FALSE,
             highpass |-> 0, lowpass |-> 0,
             video |-> <<>>, bgm |-> <<>>, voice |-> <<>>, mix |-> <<>>]

\* the lengths, in seconds, of the media a composition is given, and of the
\* streams of the file its engine run wrote (0: none)
NoLengths == [video |-> 0, music |-> 0, voice |-> 0]
NoStreams == [video |-> 0, audio |-> 0]

NoVideo == [made |-> FALSE, duration |-> 0, voiceover_path |-> "none"]

\* no generation is followed
NoProject == [job |-> 0, i |-> 0, kind |-> "", duration |-> 0, stage |-> "idle",
              tts |-> "", voiceover |-> "none", inputs |-> <<>>,
              filter |-> NoFilter, lengths |-> NoLengths, streams |-> NoStreams,
              exit |-> "", written |-> FALSE,
              output |-> FALSE, probe |-> "",
              processed_video |-> NoVideo, storage |-> "", uploaded |-> FALSE,
              recorded |-> FALSE, result |-> "", cause |-> ""]

\* a path: a file name, with the project id that is part of it (0: none)
NoPath == [name |-> "", id |-> 0]

\* a calling thread that is not inside a composition
NoComposition == [id |-> 0, kind |-> "", stage |-> "idle", video_path |-> NoPath,
                  audio_path |-> NoPath, output_path |-> NoPath]

\* VideoGeneratorService() and its VideoComposer(): nothing drawn, nothing written
NoService == [uuids |-> 0, calls |-> [t \in Threads |-> NoComposition],
              temp_dir |-> {}]

\* no worker is between the read and the write of a statistic
NoLoads == [t \in Threads |-> 0]

\* background_tasks = {} (api.py, line 18), and requests not yet made
NoTasks == <<>>
NoHandler == [pc |-> "idle", task_id |-> <<"", 0>>]
NoHandlers == [r \in Requests |-> NoHandler]

\* no caller is polling; and a caller that has not polled yet
NoPoll == [on |-> FALSE, id |-> 0, progress |-> 0, rose |-> FALSE]
FirstPoll == [on |-> TRUE, id |-> 0, progress |-> 0, rose |-> FALSE]

\* a call that created a batch of videos of one kind and one duration
CalledFor(request, id, ret) ==
  IF request.op \in observe
  THEN [NoCall EXCEPT !.op = request.op, !.id = id, !.ret = ret,
                      !.kind = request.kind, !.duration = request.duration]
  ELSE NoCall

\* a creation whose items' parameters are left out
Unspecified(op) == [op |-> op, kind |-> "", duration |-> 0]

\* the callers ask for MaxJobs batches of MaxVideos videos in all
Requested == [jobs |-> MaxJobs, videos |-> MaxVideos]

\* BatchProcessor(video_service, max_concurrent_jobs): nothing is running
Constructed ==
  /\ is_running = FALSE
  /\ worker_threads = {}
  /\ threads = [t \in Threads |-> IdleThread]
  /\ jobs = <<>>
  /\ job_history = {}
  /\ current_jobs = {}
  /\ job_queue = <<>>
  /\ scheduled = {}
  /\ clock = 0
  /\ stats = [total_jobs |-> 0, completed_jobs |-> 0, failed_jobs |-> 0,
              total_videos_generated |-> 0]
  /\ job_callbacks = {}
  /\ ctl = "idle"
  /\ last = NoCall

Init ==
  /\ Constructed
  /\ observe = {}
  /\ project = NoProject
  /\ polled = NoPoll
  /\ requests = Requested
  /\ service = NoService
  /\ loaded = NoLoads
  /\ background_tasks = NoTasks
  /\ handlers = NoHandlers

\* the same processor, with what its callers are given recorded
InitCalls ==
  /\ Constructed
  /\ observe = {"create", "scheduled", "cancel", "status"}
  /\ project = NoProject
  /\ polled = NoPoll
  /\ requests = Requested
  /\ service = NoService
  /\ loaded = NoLoads
  /\ background_tasks = NoTasks
  /\ handlers = NoHandlers

\* the same processor, with what get_batch_status returns recorded
InitStatusCalls ==
  /\ Constructed
  /\ observe = {"status"}
  /\ project = NoProject
  /\ polled = NoPoll
  /\ requests = Requested
  /\ service = NoService
  /\ loaded = NoLoads
  /\ background_tasks = NoTasks
  /\ handlers = NoHandlers

\* the same processor, with what the creations of batches return recorded
InitCreateCalls ==
  /\ Constructed
  /\ observe = {"create", "scheduled"}
  /\ project = NoProject
  /\ polled = NoPoll
  /\ requests = Requested
  /\ service = NoService
  /\ loaded = NoLoads
  /\ background_tasks = NoTasks
  /\ handlers = NoHandlers

\* the same processor, asked for one video less, with a caller that polls
\* the status of one job
InitPolls ==
  /\ Constructed
  /\ observe = {}
  /\ project = NoProject
  /\ polled = FirstPoll
  /\ requests = [jobs |-> MaxJobs, videos |-> MaxVideos - 1]
  /\ service = NoService
  /\ loaded = NoLoads
  /\ background_tasks = NoTasks
  /\ handlers = NoHandlers

\* ------------------------------------------------- the priority queue
\* queue.PriorityQueue keeps its entries in a list ordered by heapq; an entry
\* is the tuple (-priority, time.time(), batch_job).  Python compares the
\* tuples item by item: the first two are numbers, the third is a BatchJob,
\* a dataclass without order=True, so comparing two different jobs raises
\* TypeError.  Cmp is entry a < entry b: "lt", "ge", or "err" for TypeError.
Cmp(a, b) ==
  IF a[1] # b[1] THEN (IF a[1] < b[1] THEN "lt" ELSE "ge")
  ELSE IF a[2] # b[2] THEN (IF a[2] < b[2] THEN "lt" ELSE "ge")
  ELSE IF a[3] = b[3] THEN "ge" ELSE "err"

Swap(h, p, q) == [h EXCEPT ![p] = h[q], ![q] = h[p]]

\* heapq's siftdown: move the entry at pos up while it is smaller than its
\* parent.  Positions are 1-based here.  ok is FALSE when a comparison raised;
\* the list then stays as the swaps made so far left it.
RECURSIVE siftdown(_, _, _)
siftdown(h, startpos, pos) ==
  IF pos <= startpos THEN [heap |-> h, ok |-> TRUE]
  ELSE LET parentpos == pos \div 2
           c == Cmp(h[pos], h[parentpos])
       IN IF c = "err" THEN [heap |-> h, ok |-> FALSE]
          ELSE IF c = "ge" THEN [heap |-> h, ok |-> TRUE]
          ELSE siftdown(Swap(h, pos, parentpos), startpos, parentpos)

\* heapq's siftup: move the smaller child up until a leaf is reached ...
RECURSIVE siftup_leaf(_, _)
siftup_leaf(h, pos) ==
  IF 2 * pos > Len(h) THEN [heap |-> h, ok |-> TRUE, pos |-> pos]
  ELSE IF 2 * pos + 1 <= Len(h)
       THEN LET c == Cmp(h[2 * pos], h[2 * pos + 1])
                childpos == IF c = "lt" THEN 2 * pos ELSE 2 * pos + 1
            IN IF c = "err" THEN [heap |-> h, ok |-> FALSE, pos |-> pos]
               ELSE siftup_leaf(Swap(h, childpos, pos), childpos)
       ELSE siftup_leaf(Swap(h, 2 * pos, pos), 2 * pos)

\* ... then bubble the entry up to its place
siftup(h, pos) ==
  LET r == siftup_leaf(h, pos)
  IN IF r.ok THEN siftdown(r.heap, pos, r.pos) ELSE [heap |-> r.heap, ok |-> FALSE]

\* heapq.heappush, as PriorityQueue._put calls it
heappush(h, entry) == siftdown(Append(h, entry), 1, Len(h) + 1)

\* heappop that returns the first entry and leaves it in the list
heappeek(h) == [heap |-> h, ok |-> TRUE, entry |-> h[1]]

\* heapq.heappop, as PriorityQueue._get calls it, on a non-empty list: the last
\* entry replaces the first and is sifted; when a comparison raises, the entry
\* that was to be returned is dropped with the exception.
heappop(h) ==
  LET n == Len(h)
      lastelt == h[n]
      rest == SubSeq(h, 1, n - 1)
  IN IF n = 1 THEN [heap |-> <<>>, ok |-> TRUE, entry |-> lastelt]
     ELSE LET r == siftup([rest EXCEPT ![1] = lastelt], 1)
          IN [heap |-> r.heap, ok |-> r.ok, entry |-> h[1]]

QueuedJobs == {job_queue[k][3] : k \in DOMAIN job_queue}

\* ------------------------------------------------------- batch creation
RECURSIVE MaxPriorityOf(_)
MaxPriorityOf(items) ==
  IF Len(items) = 1 THEN items[1].priority
  ELSE LET m == MaxPriorityOf(Tail(items))
       IN IF items[1].priority >= m THEN items[1].priority ELSE m

\* _submit_batch_job: record the job, count it, queue it under
\* (-max item priority, time.time()).  max() of no items raises ValueError and
\* put() raises TypeError when the heap compares two jobs; both leave what was
\* written before them.
SubmitBatchJob(id, job, now, request) ==
  /\ job_history' = job_history \cup {id}
  /\ stats' = [stats EXCEPT !.total_jobs = @ + 1]
  /\ IF job.items = <<>>
     THEN /\ UNCHANGED <<job_queue, clock>>
          /\ last' = CalledFor(request, id, "ValueError")
     ELSE LET priority == MaxPriorityOf(job.items)
              r == heappush(job_queue, <<-priority, now, id>>)
          IN /\ clock' = now
             /\ job_queue' = r.heap
             /\ last' = CalledFor(request, id, IF r.ok THEN "ok" ELSE "TypeError")

\* the items a caller can ask for: the priorities of its job specs, in order
Priorities == 1..MaxPriority
JobSpecs == UNION {[1..n -> Priorities] : n \in 0..MaxItems}

ItemsOf(specs) == [k \in 1..Len(specs) |-> BatchJobItem(k, specs[k])]

\* items.sort(key=lambda x: x.priority, reverse=True): a stable sort
\* the items created so far, and whether a request of n more is within bounds
RECURSIVE ItemCount(_)
ItemCount(js) == IF js = <<>> THEN 0 ELSE Len(js[1].items) + ItemCount(Tail(js))

WithinBounds(n) ==
  Len(jobs) < requests.jobs /\ ItemCount(jobs) + n <= requests.videos

\* SortByPriority that turns the list around instead
SortReversed(items) == [k \in 1..Len(items) |-> items[Len(items) + 1 - k]]

RECURSIVE SortFrom(_, _)
SortFrom(items, p) ==
  IF p = 0 THEN <<>>
  ELSE SelectSeq(items, LAMBDA it : it.priority = p) \o SortFrom(items, p - 1)

SortByPriority(items) == SortFrom(items, MaxPriority)

Readings == {clock, clock + 1}

\* the durations, in seconds, a caller asks for: the least the API accepts for
\* a motivation video, the most it accepts for a lofi video, and their
\* neighbours outside
MinMotivationDuration == 30
MaxMotivationDuration == 300
MinLofiDuration == 60
MaxLofiDuration == 600

Durations ==
  {MinMotivationDuration - 1, MinMotivationDuration,
   MaxLofiDuration, MaxLofiDuration + 1}

MOTIVATION == "motivation"
LOFI == "lofi"

\* the validation of api.py: not 30 <= duration <= 300, not 60 <= duration <= 600
DurationAccepted(kind, duration) ==
  IF kind = MOTIVATION
  THEN MinMotivationDuration <= duration /\ duration <= MaxMotivationDuration
  ELSE MinLofiDuration <= duration /\ duration <= MaxLofiDuration

\* create_motivation_batch(themes, durations): one item of priority 1 a theme.
\* n themes are given and one duration, which line 138 gives every item; the
\* duration is put in the item's parameters, which the processor only hands
\* to the video service, and is not looked at.
create_motivation_batch(n, duration, now) ==
  /\ WithinBounds(n)
  /\ LET id == Len(jobs) + 1
         job == BatchJob(ItemsOf([k \in 1..n |-> 1]))
     IN /\ jobs' = Append(jobs, job)
        /\ SubmitBatchJob(id, job, now,
                          [op |-> "create", kind |-> MOTIVATION, duration |-> duration])
  /\ UNCHANGED <<is_running, worker_threads, threads, current_jobs, scheduled, ctl>>
  /\ UNCHANGED <<job_callbacks, observe, project, polled, requests, service, loaded,
                 background_tasks, handlers>>

\* create_lofi_batch(categories, durations): one item of priority 1 a category
create_lofi_batch(n, duration, now) ==
  /\ WithinBounds(n)
  /\ LET id == Len(jobs) + 1
         job == BatchJob(ItemsOf([k \in 1..n |-> 1]))
     IN /\ jobs' = Append(jobs, job)
        /\ SubmitBatchJob(id, job, now,
                          [op |-> "create", kind |-> LOFI, duration |-> duration])
  /\ UNCHANGED <<is_running, worker_threads, threads, current_jobs, scheduled, ctl>>
  /\ UNCHANGED <<job_callbacks, observe, project, polled, requests, service, loaded,
                 background_tasks, handlers>>

\* create_mixed_batch(job_specs): the items sorted by priority, highest first
create_mixed_batch(specs, now) ==
  /\ WithinBounds(Len(specs))
  /\ LET id == Len(jobs) + 1
         job == BatchJob(SortByPriority(ItemsOf(specs)))
     IN /\ jobs' = Append(jobs, job)
        /\ SubmitBatchJob(id, job, now, Unspecified("create"))
  /\ UNCHANGED <<is_running, worker_threads, threads, current_jobs, scheduled, ctl>>
  /\ UNCHANGED <<job_callbacks, observe, project, polled, requests, service, loaded,
                 background_tasks, handlers>>

\* create_scheduled_batch(job_specs, schedule_time): the job is recorded at
\* once and a scheduling thread is started that submits it later
create_scheduled_batch(specs) ==
  /\ WithinBounds(Len(specs))
  /\ LET id == Len(jobs) + 1
     IN /\ jobs' = Append(jobs, BatchJob(ItemsOf(specs)))
        /\ job_history' = job_history \cup {id}
        /\ scheduled' = scheduled \cup {id}
        /\ last' = Called("create", id, "ok")
  /\ UNCHANGED <<is_running, worker_threads, threads, current_jobs, job_queue,
                 clock, stats, ctl>>
  /\ UNCHANGED <<job_callbacks, observe, project, polled, requests, service, loaded,
                 background_tasks, handlers>>

\* scheduled_execution, the scheduling thread's body once its sleep is over
scheduled_execution(id, now) ==
  /\ id \in scheduled
  /\ scheduled' = scheduled \ {id}
  /\ SubmitBatchJob(id, jobs[id], now, Unspecified("scheduled"))
  /\ UNCHANGED <<is_running, worker_threads, threads, jobs, current_jobs, ctl>>
  /\ UNCHANGED <<job_callbacks, observe, project, polled, requests, service, loaded,
                 background_tasks, handlers>>

\* ------------------------------------------------- start and stop
DeadThreads == {t \in Threads : threads[t].pc = "dead"}

\* the threads a start creates: max_concurrent_jobs new ones
NewThreads ==
  CHOOSE S \in SUBSET DeadThreads :
    /\ Cardinality(S) = max_concurrent_jobs
    /\ \A a \in S, b \in DeadThreads \ S : a < b

\* start_processing: return when already running, else set the flag and start
\* max_concurrent_jobs worker threads
start_processing ==
  /\ ctl = "idle"
  /\ IF is_running
     THEN /\ last' = NoCall
          /\ UNCHANGED <<is_running, worker_threads, threads>>
     ELSE /\ Cardinality(DeadThreads) >= max_concurrent_jobs
          /\ is_running' = TRUE
          /\ threads' = [t \in Threads |->
                           IF t \in NewThreads THEN [pc |-> "poll", job |-> 0, i |-> 0]
                           ELSE threads[t]]
          /\ worker_threads' = worker_threads \cup NewThreads
          /\ last' = NoCall
  /\ UNCHANGED <<jobs, job_history, current_jobs, job_queue, scheduled, clock,
                 stats, ctl>>
  /\ UNCHANGED <<job_callbacks, observe, project, polled, requests, service, loaded,
                 background_tasks, handlers>>

\* stop_processing, its first statement: clear the flag, then join the workers
stop_processing ==
  /\ ctl = "idle"
  /\ is_running' = FALSE
  /\ ctl' = "joining"
  /\ UNCHANGED <<worker_threads, threads, jobs, job_history, current_jobs,
                 job_queue, scheduled, clock, stats>>
  /\ last' = NoCall
  /\ UNCHANGED <<job_callbacks, observe, project, polled, requests, service, loaded,
                 background_tasks, handlers>>

\* worker.join(timeout=30) has returned for every worker: the worker has ended,
\* or it is inside a video generation that outlasts the 30 seconds (a worker
\* anywhere else sees the flag within the 1 second of its queue poll)
Joined(t) == threads[t].pc \in {"dead", "gen"}

\* stop_processing, after the joins: forget the threads
stop_processing_return ==
  /\ ctl = "joining"
  /\ \A t \in worker_threads : Joined(t)
  /\ worker_threads' = {}
  /\ ctl' = "idle"
  /\ last' = NoCall
  /\ UNCHANGED <<is_running, threads, jobs, job_history, current_jobs,
                 job_queue, scheduled, clock, stats>>
  /\ UNCHANGED <<job_callbacks, observe, project, polled, requests, service, loaded,
                 background_tasks, handlers>>

\* ------------------------------------------------- the worker thread
At(t, pc) == threads[t].pc = pc

\* while self.is_running: false, the thread ends
worker_exit(t) ==
  /\ At(t, "poll")
  /\ ~is_running
  /\ threads' = [threads EXCEPT ![t] = IdleThread]
  /\ UNCHANGED <<is_running, worker_threads, jobs, job_history, current_jobs,
                 job_queue, scheduled, clock, stats, ctl>>
  /\ last' = NoCall
  /\ UNCHANGED <<job_callbacks, observe, project, polled, requests, service, loaded,
                 background_tasks, handlers>>

\* job_queue.get(timeout=1.0) on a queue that holds an entry; a TypeError of
\* the heap is caught by the loop's except, and the loop goes on
worker_get(t) ==
  /\ At(t, "poll")
  /\ is_running
  /\ job_queue # <<>>
  /\ LET r == heappop(job_queue)
     IN /\ job_queue' = r.heap
        /\ clock' = IF r.heap = <<>> THEN 0 ELSE clock
        /\ threads' = [threads EXCEPT ![t] =
                         IF r.ok THEN [pc |-> "got", job |-> r.entry[3], i |-> 0]
                         ELSE @]
  /\ UNCHANGED <<is_running, worker_threads, jobs, job_history, current_jobs,
                 scheduled, stats, ctl>>
  /\ last' = NoCall
  /\ UNCHANGED <<job_callbacks, observe, project, polled, requests, service, loaded,
                 background_tasks, handlers>>

\* _process_batch_job, lines 333-335
process_begin(t) ==
  /\ At(t, "got")
  /\ LET id == threads[t].job
     IN /\ jobs' = [jobs EXCEPT ![id].status = RUNNING]
        /\ current_jobs' = current_jobs \cup {id}
  /\ threads' = [threads EXCEPT ![t].pc = "loop", ![t].i = 1]
  /\ UNCHANGED <<is_running, worker_threads, job_history, job_queue, scheduled,
                 clock, stats, ctl>>
  /\ last' = NoCall
  /\ UNCHANGED <<job_callbacks, observe, project, polled, requests, service, loaded,
                 background_tasks, handlers>>

\* stop_observed that starts the item all the same
stop_overlooked(t) ==
  /\ At(t, "loop")
  /\ ~is_running
  /\ jobs' = [jobs EXCEPT ![threads[t].job].items[threads[t].i].started = TRUE]
  /\ threads' = [threads EXCEPT ![t].pc = "gen"]
  /\ UNCHANGED <<is_running, worker_threads, job_history, current_jobs,
                 job_queue, scheduled, clock, stats, ctl>>
  /\ last' = NoCall
  /\ UNCHANGED <<job_callbacks, observe, project, polled, requests, service, loaded,
                 background_tasks, handlers>>

\* stop_observed that leaves the loop without marking the job
stop_observed_unmarked(t) ==
  /\ At(t, "loop")
  /\ ~is_running
  /\ threads' = [threads EXCEPT ![t].pc = "finish"]
  /\ UNCHANGED <<is_running, worker_threads, jobs, job_history, current_jobs,
                 job_queue, scheduled, clock, stats, ctl>>
  /\ last' = NoCall
  /\ UNCHANGED <<job_callbacks, observe, project, polled, requests, service, loaded,
                 background_tasks, handlers>>

\* the head of the loop over the items with the flag cleared: lines 340-342
stop_observed(t) ==
  /\ At(t, "loop")
  /\ ~is_running
  /\ jobs' = [jobs EXCEPT ![threads[t].job].status = CANCELLED]
  /\ threads' = [threads EXCEPT ![t].pc = "finish"]
  /\ UNCHANGED <<is_running, worker_threads, job_history, current_jobs,
                 job_queue, scheduled, clock, stats, ctl>>
  /\ last' = NoCall
  /\ UNCHANGED <<job_callbacks, observe, project, polled, requests, service, loaded,
                 background_tasks, handlers>>

\* StartItem that also puts the job's first item back to its initial state
StartItemRestarts(job, i) ==
  [job EXCEPT !.items[i].status = INITIALIZING, !.items[i].started = TRUE,
              !.items[1].status = INITIALIZING]

\* lines 346-347
StartItem(job, i) ==
  [job EXCEPT !.items[i].status = INITIALIZING, !.items[i].started = TRUE]

\* the head of the loop with the flag set: the item is started and the video
\* service is called
item_start(t) ==
  /\ At(t, "loop")
  /\ is_running
  /\ jobs' = [jobs EXCEPT ![threads[t].job] = StartItem(@, threads[t].i)]
  /\ threads' = [threads EXCEPT ![t].pc = "gen"]
  /\ UNCHANGED <<is_running, worker_threads, job_history, current_jobs,
                 job_queue, scheduled, clock, stats, ctl>>
  /\ last' = NoCall
  /\ UNCHANGED <<job_callbacks, observe, project, polled, requests, service, loaded,
                 background_tasks, handlers>>

\* CompleteItem that does not append the result to the job's results
CompleteItemUnlisted(job, i) ==
  [job EXCEPT !.items[i].status = ITEM_COMPLETED,
              !.items[i].result = TRUE,
              !.completed_items = @ + 1]

\* lines 365-370: the service returned a result
CompleteItem(job, i) ==
  [job EXCEPT !.items[i].status = ITEM_COMPLETED,
              !.items[i].result = TRUE,
              !.results = Append(@, job.items[i].pos),
              !.completed_items = @ + 1]

item_completed(t) ==
  /\ At(t, "gen")
  /\ jobs' = [jobs EXCEPT ![threads[t].job] = CompleteItem(@, threads[t].i)]
  /\ threads' = [threads EXCEPT ![t].pc = "post"]
  /\ UNCHANGED <<is_running, worker_threads, job_history, current_jobs,
                 job_queue, scheduled, clock, stats, ctl>>
  /\ last' = NoCall
  /\ UNCHANGED <<job_callbacks, observe, project, polled, requests, service, loaded,
                 background_tasks, handlers>>

\* FailItem with the item counted as completed before the service raised
FailItemCountedTwice(job, i, text) ==
  [job EXCEPT !.items[i].status = ITEM_FAILED,
              !.items[i].error_message = text,
              !.completed_items = @ + 1,
              !.failed_items = @ + 1]

\* FailItem with the exception left to the handler of the whole job
FailItemFailsJob(job, i, text) ==
  [job EXCEPT !.items[i].status = ITEM_FAILED, !.status = FAILED]

\* FailItem that fails the job once no item of it has succeeded
FailItemFailsEmptyJob(job, i, text) ==
  [job EXCEPT !.items[i].status = ITEM_FAILED,
              !.items[i].error_message = text,
              !.failed_items = @ + 1,
              !.status = IF job.completed_items = 0 /\ i = job.total_items
                         THEN FAILED ELSE @]

\* lines 374-378: the service raised e, and text is str(e)
FailItem(job, i, text) ==
  [job EXCEPT !.items[i].status = ITEM_FAILED,
              !.items[i].error_message = text,
              !.failed_items = @ + 1]

item_failed(t, text) ==
  /\ At(t, "gen")
  /\ jobs' = [jobs EXCEPT ![threads[t].job] = FailItem(@, threads[t].i, text)]
  /\ threads' = [threads EXCEPT ![t].pc = "post"]
  /\ UNCHANGED <<is_running, worker_threads, job_history, current_jobs,
                 job_queue, scheduled, clock, stats, ctl>>
  /\ last' = NoCall
  /\ UNCHANGED <<job_callbacks, observe, project, polled, requests, service, loaded,
                 background_tasks, handlers>>

\* ProgressAfter counting the items that are left
ProgressLeft(n, total_items) == ((total_items - n) * 100) \div total_items

\* int((i + 1) / total_items * 100), n being i + 1.  The quotient and the
\* product are floating point; for total_items below 50 the result is the
\* integer floor of 100 n / total_items (29 of 50 is the first to differ).
ProgressAfter(n, total_items) == (n * 100) \div total_items

\* the loop's step from item i: to item i + 1, or out of the loop after the
\* last item
NextItem(th, job) ==
  IF th.i < Len(job.items) THEN [th EXCEPT !.pc = "loop", !.i = th.i + 1]
  ELSE [th EXCEPT !.pc = "finish"]

\* lines 383 and 386: the progress is written, and the callback registered for
\* the job, if there is one, is called with the job
update_progress(t) ==
  /\ At(t, "post")
  /\ LET id == threads[t].job
         i == threads[t].i
     IN /\ jobs' = [jobs EXCEPT ![id].progress = ProgressAfter(i, jobs[id].total_items)]
        /\ threads' = [threads EXCEPT ![t] =
                         IF id \in job_callbacks
                         THEN [@ EXCEPT !.pc = "callback"]
                         ELSE NextItem(@, jobs[id])]
  /\ UNCHANGED <<is_running, worker_threads, job_history, current_jobs,
                 job_queue, scheduled, clock, stats, ctl>>
  /\ last' = NoCall
  /\ UNCHANGED <<job_callbacks, observe, project, polled, requests, service, loaded,
                 background_tasks, handlers>>

\* callback_raised with the exception left to the handler of the whole job
\* (lines 401-412)
callback_raised_uncaught(t) ==
  /\ At(t, "callback")
  /\ jobs' = [jobs EXCEPT ![threads[t].job].status = FAILED]
  /\ stats' = [stats EXCEPT !.failed_jobs = @ + 1]
  /\ current_jobs' = current_jobs \ {threads[t].job}
  /\ threads' = [threads EXCEPT ![t] = [pc |-> "poll", job |-> 0, i |-> 0]]
  /\ UNCHANGED <<is_running, worker_threads, job_history, job_queue, scheduled,
                 clock, ctl>>
  /\ last' = NoCall
  /\ UNCHANGED <<job_callbacks, observe, project, polled, requests, service, loaded,
                 background_tasks, handlers>>

\* lines 387-388: the callback returned
callback_returned(t) ==
  /\ At(t, "callback")
  /\ threads' = [threads EXCEPT ![t] = NextItem(@, jobs[threads[t].job])]
  /\ UNCHANGED <<is_running, worker_threads, jobs, job_history, current_jobs,
                 job_queue, scheduled, clock, stats, ctl>>
  /\ last' = NoCall
  /\ UNCHANGED <<job_callbacks, observe, project, polled, requests, service, loaded,
                 background_tasks, handlers>>

\* lines 389-390: the callback raised, and the exception is printed
callback_raised(t) ==
  /\ At(t, "callback")
  /\ threads' = [threads EXCEPT ![t] = NextItem(@, jobs[threads[t].job])]
  /\ UNCHANGED <<is_running, worker_threads, jobs, job_history, current_jobs,
                 job_queue, scheduled, clock, stats, ctl>>
  /\ last' = NoCall
  /\ UNCHANGED <<job_callbacks, observe, project, polled, requests, service, loaded,
                 background_tasks, handlers>>

\* Completes without the test of the status
CompletesCancelled(job) == TRUE

\* lines 393-397: the job is completed unless it is cancelled.  Nothing between
\* lines 339 and 399 raises outside the inner try, so the handler of line 401,
\* which would mark the job FAILED and count it in failed_jobs, is never
\* entered.
Completes(job) == job.status # CANCELLED

\* lines 393-397 and 409-412, then the worker's task_done() and next poll
process_end(t) ==
  /\ At(t, "finish")
  /\ LET id == threads[t].job
     IN /\ IF Completes(jobs[id])
           THEN /\ jobs' = [jobs EXCEPT ![id].status = COMPLETED]
                /\ stats' = [stats EXCEPT
                               !.completed_jobs = @ + 1,
                               !.total_videos_generated = @ + jobs[id].completed_items]
           ELSE UNCHANGED <<jobs, stats>>
        /\ current_jobs' = current_jobs \ {id}
  /\ threads' = [threads EXCEPT ![t] = [pc |-> "poll", job |-> 0, i |-> 0]]
  /\ UNCHANGED <<is_running, worker_threads, job_history, job_queue, scheduled,
                 clock, ctl>>
  /\ last' = NoCall
  /\ UNCHANGED <<job_callbacks, observe, project, polled, requests, service, loaded,
                 background_tasks, handlers>>

\* The same lines 393-412 statement by statement.  self.stats[key] += n is a
\* read of the dictionary, an addition and a store; no lock is held, and
\* another thread may run between the read and the store.
\* lines 394-396: the status is set, and stats['completed_jobs'] is read
complete_job(t) ==
  /\ At(t, "finish")
  /\ Completes(jobs[threads[t].job])
  /\ jobs' = [jobs EXCEPT ![threads[t].job].status = COMPLETED]
  /\ loaded' = [loaded EXCEPT ![t] = stats.completed_jobs]
  /\ threads' = [threads EXCEPT ![t].pc = "count_job"]
  /\ UNCHANGED <<is_running, worker_threads, job_history, current_jobs,
                 job_queue, scheduled, clock, stats, ctl>>
  /\ last' = NoCall
  /\ UNCHANGED <<job_callbacks, observe, project, polled, requests, service,
                 background_tasks, handlers>>

\* line 396 stores completed_jobs, line 397 reads total_videos_generated
count_job(t) ==
  /\ At(t, "count_job")
  /\ stats' = [stats EXCEPT !.completed_jobs = loaded[t] + 1]
  /\ loaded' = [loaded EXCEPT ![t] = stats'.total_videos_generated]
  /\ threads' = [threads EXCEPT ![t].pc = "count_videos"]
  /\ UNCHANGED <<is_running, worker_threads, jobs, job_history, current_jobs,
                 job_queue, scheduled, clock, ctl>>
  /\ last' = NoCall
  /\ UNCHANGED <<job_callbacks, observe, project, polled, requests, service,
                 background_tasks, handlers>>

\* line 397 stores total_videos_generated; lines 409-412, and the next poll
count_videos(t) ==
  /\ At(t, "count_videos")
  /\ stats' = [stats EXCEPT !.total_videos_generated =
                              loaded[t] + jobs[threads[t].job].completed_items]
  /\ loaded' = [loaded EXCEPT ![t] = 0]
  /\ current_jobs' = current_jobs \ {threads[t].job}
  /\ threads' = [threads EXCEPT ![t] = [pc |-> "poll", job |-> 0, i |-> 0]]
  /\ UNCHANGED <<is_running, worker_threads, jobs, job_history, job_queue,
                 scheduled, clock, ctl>>
  /\ last' = NoCall
  /\ UNCHANGED <<job_callbacks, observe, project, polled, requests, service,
                 background_tasks, handlers>>

\* lines 393 and 409-412 for a job that is not completed
leave_job(t) ==
  /\ At(t, "finish")
  /\ ~Completes(jobs[threads[t].job])
  /\ process_end(t)

\* ------------------------------------------------- callers
\* Cancellable of every job that has not run to its end
CancellableUnfinished(job) == job.status \notin {COMPLETED, FAILED}

\* Cancellable without the test of the status
CancellableAlways(job) == TRUE

\* line 497: the statuses cancel_batch cancels a job in
Cancellable(job) == job.status \in {PENDING, RUNNING}

\* cancel_batch(batch_id)
cancel_batch(id) ==
  /\ IF id \in job_history /\ Cancellable(jobs[id])
     THEN /\ jobs' = [jobs EXCEPT ![id].status = CANCELLED]
          /\ last' = Called("cancel", id, "True")
     ELSE /\ UNCHANGED jobs
          /\ last' = Called("cancel", id, "False")
  /\ UNCHANGED <<is_running, worker_threads, threads, job_history, current_jobs,
                 job_queue, scheduled, clock, stats, ctl>>
  /\ UNCHANGED <<job_callbacks, observe, project, polled, requests, service, loaded,
                 background_tasks, handlers>>

\* get_batch_status(batch_id): the dictionary it returns, or None
get_batch_status(id) ==
  /\ last' = IF id \in job_history /\ "status" \in observe
             THEN [NoCall EXCEPT
                     !.op = "status", !.id = id, !.ret = "dict",
                     !.status = jobs[id].status,
                     !.progress = jobs[id].progress,
                     !.total_items = jobs[id].total_items,
                     !.completed_items = jobs[id].completed_items,
                     !.failed_items = jobs[id].failed_items]
             ELSE Called("status", id, "None")
  /\ polled' = IF polled.on /\ id \in job_history /\ polled.id \in {0, id}
               THEN [on |-> TRUE, id |-> id, progress |-> jobs[id].progress,
                     rose |-> polled.rose \/ (polled.id = id /\
                                              jobs[id].progress > polled.progress)]
               ELSE polled
  /\ UNCHANGED <<is_running, worker_threads, threads, jobs, job_history,
                 current_jobs, job_queue, scheduled, clock, stats, ctl>>
  /\ UNCHANGED <<job_callbacks, observe, project, requests, service, loaded,
                 background_tasks, handlers>>

\* register_progress_callback(batch_id, callback), for an id a creation gave
register_progress_callback(id) ==
  /\ id \in job_history
  /\ job_callbacks' = job_callbacks \cup {id}
  /\ last' = NoCall
  /\ UNCHANGED <<is_running, worker_threads, threads, jobs, job_history,
                 current_jobs, job_queue, scheduled, clock, stats, ctl, observe,
                 project, polled, requests, service, loaded,
                 background_tasks, handlers>>

\* lines 541-545: the jobs cleanup_old_batches finds old.  aged are the jobs
\* whose created_at is before the cutoff and done those of them whose
\* completed_at is before it too; completed_at is set where a job is
\* COMPLETED (line 395) or FAILED (line 404) and nowhere else.
OldBatches(aged, done) ==
  {j \in job_history :
     \/ jobs[j].status \in {COMPLETED, FAILED} /\ j \in done
     \/ jobs[j].status \notin {COMPLETED, FAILED} /\ j \in aged}

\* cleanup_old_batches(days_old): jobs are created in the order of their
\* ids, so the jobs created before the cutoff are the first ones, and a job
\* completed before the cutoff was created before it
cleanup_old_batches(aged, done) ==
  /\ aged \subseteq job_history
  /\ \A j \in aged, k \in job_history : k < j => k \in aged
  /\ done \subseteq aged
  /\ LET old_batches == OldBatches(aged, done)
     IN /\ job_history' = job_history \ old_batches
        /\ job_callbacks' = job_callbacks \ old_batches
  /\ last' = NoCall
  /\ UNCHANGED <<is_running, worker_threads, threads, jobs, current_jobs,
                 job_queue, scheduled, clock, stats, ctl, observe, project,
                 polled, requests, service, loaded, background_tasks, handlers>>

\* ------------------------------------------------- the video service
\* One generation is followed: generate_motivation_video or generate_lofi_video
\* of main_service.py, as line 349-362 of the worker calls it for the item it
\* stands at, and inside it compose_motivation_video or compose_lofi_video of
\* video_composer.py.  project.stage is the place of the call.
batch_vars == <<is_running, worker_threads, threads, jobs, job_history,
                current_jobs, job_queue, scheduled, clock, stats,
                job_callbacks, ctl, last, observe, polled, requests, service, loaded,
                 background_tasks, handlers>>

\* the generation followed is the one worker t is waiting for
Serving(t) ==
  /\ At(t, "gen")
  /\ project.job = threads[t].job
  /\ project.i = threads[t].i

\* the except clause of generate_motivation_video / generate_lofi_video: the
\* exception is wrapped and raised to the caller
Raised(p, cause) == [p EXCEPT !.stage = "raised", !.cause = cause]

\* lines 349-362 of the worker: the service is called for the item, by its
\* type, with the duration of its parameters
generate_video(t, kind, duration) ==
  /\ At(t, "gen")
  /\ ~Serving(t)
  /\ project' = [NoProject EXCEPT
                   !.job = threads[t].job, !.i = threads[t].i,
                   !.kind = kind, !.duration = duration,
                   !.stage = IF kind = MOTIVATION THEN "content" ELSE "media"]
  /\ UNCHANGED batch_vars

\* generate_motivation_video, step 1: the Stoic content is taken from the
\* generator's tables
generate_content ==
  /\ project.stage = "content"
  /\ project' = [project EXCEPT !.stage = "media"]
  /\ UNCHANGED batch_vars

\* _acquire_motivation_media / _acquire_lofi_media: found tells whether the
\* footage and the music were found
acquire_media(found) ==
  /\ project.stage = "media"
  /\ project' = IF ~found THEN Raised(project, "media")
                ELSE [project EXCEPT
                        !.stage = IF project.kind = MOTIVATION THEN "voice"
                                  ELSE "compose"]
  /\ UNCHANGED batch_vars

\* generate_voiceover_audio: tts is "ok", "unavailable" (no TTS engine) or
\* "failed" (the engine raised); both failures raise
generate_voiceover_audio(tts) ==
  /\ project.stage = "voice"
  /\ project' = IF tts = "ok"
                THEN [project EXCEPT !.tts = tts, !.voiceover = "file",
                                     !.stage = "compose"]
                ELSE Raised([project EXCEPT !.tts = tts], "voiceover")
  /\ UNCHANGED batch_vars

\* one filter of a chain, with up to two of its arguments: levels in percent,
\* times in seconds, frequencies in Hz, -1 for loop=-1
Step(op, a, b) == [op |-> op, a |-> a, b |-> b]

\* [0:v]scale=1920:1080:...,crop=1920:1080,loop=loop=-1:size=32767,
\* setpts=PTS-STARTPTS,trim=duration={duration},fade=t=in:st=0:d=2,
\* fade=t=out:st={duration-3}:d=3[video_out], the same in both branches of
\* _create_motivation_filter
MotivationVideoChain(duration) ==
  <<Step("scale", 1920, 1080), Step("crop", 1920, 1080), Step("loop", -1, 32767),
    Step("setpts", 0, 0), Step("trim", duration, 0), Step("fade_in", 0, 2),
    Step("fade_out", duration - 3, 3)>>

\* the video chain of _create_lofi_filter
LofiVideoChain(duration) ==
  <<Step("scale", 1920, 1080), Step("crop", 1920, 1080), Step("loop", -1, 32767),
    Step("setpts", 0, 0), Step("trim", duration, 0), Step("eq", 0, 0),
    Step("unsharp", 0, 0), Step("fade_in", 0, 3), Step("fade_out", duration - 4, 4)>>

\* CreateMotivationFilter that mixes a voice track whether there is one or not
CreateMotivationFilterWithVoice(duration, has_voiceover) ==
  [inputs |-> 3, trim |-> duration, fade_out_start |-> duration - 3,
   bgm_volume |-> 20, voice_volume |-> 80, voice_delay |-> 3, amix |-> TRUE,
   highpass |-> 80, lowpass |-> 12000,
   video |-> MotivationVideoChain(duration),
   bgm |-> <<Step("volume", 20, 0), Step("aloop", -1, 2000000000),
             Step("atrim", duration, 0)>>,
   voice |-> <<Step("volume", 80, 0), Step("adelay", 3, 0)>>,
   mix |-> <<Step("amix_longest", 2, 0), Step("compand", 0, 0),
             Step("highpass", 80, 0), Step("lowpass", 12000, 0)>>]

\* _create_lofi_filter with the video trimmed before it is looped
CreateLofiFilterTrimFirst(duration) ==
  [inputs |-> 2, trim |-> duration, fade_out_start |-> duration - 4,
   bgm_volume |-> 85, voice_volume |-> 0, voice_delay |-> 0, amix |-> FALSE,
   highpass |-> 60, lowpass |-> 15000,
   video |-> <<Step("scale", 1920, 1080), Step("crop", 1920, 1080),
               Step("trim", duration, 0), Step("loop", -1, 32767),
               Step("setpts", 0, 0), Step("fade_in", 0, 3),
               Step("fade_out", duration - 4, 4)>>,
   bgm |-> <<Step("volume", 85, 0), Step("aloop", -1, 2000000000),
             Step("atrim", duration, 0), Step("compand", 0, 0),
             Step("highpass", 60, 0), Step("lowpass", 15000, 0),
             Step("afade_in", 0, 4), Step("afade_out", duration - 5, 5)>>,
   voice |-> <<>>,
   mix |-> <<>>]

\* _create_motivation_filter(duration, has_voiceover): the levels in percent,
\* the times in seconds, the band in Hz (0: no band filter); video, bgm and
\* voice are the chains of the three inputs, mix the chain after amix
CreateMotivationFilter(duration, has_voiceover) ==
  IF has_voiceover
  THEN [inputs |-> 3, trim |-> duration, fade_out_start |-> duration - 3,
        bgm_volume |-> 20, voice_volume |-> 80, voice_delay |-> 3, amix |-> TRUE,
        highpass |-> 80, lowpass |-> 12000,
        video |-> MotivationVideoChain(duration),
        bgm |-> <<Step("volume", 20, 0), Step("aloop", -1, 2000000000),
                  Step("atrim", duration, 0)>>,
        voice |-> <<Step("volume", 80, 0), Step("adelay", 3, 0)>>,
        mix |-> <<Step("amix_longest", 2, 0), Step("compand", 0, 0),
                  Step("highpass", 80, 0), Step("lowpass", 12000, 0)>>]
  ELSE [inputs |-> 2, trim |-> duration, fade_out_start |-> duration - 3,
        bgm_volume |-> 60, voice_volume |-> 0, voice_delay |-> 0, amix |-> FALSE,
        highpass |-> 0, lowpass |-> 0,
        video |-> MotivationVideoChain(duration),
        bgm |-> <<Step("volume", 60, 0), Step("aloop", -1, 2000000000),
                  Step("atrim", duration, 0), Step("compand", 0, 0)>>,
        voice |-> <<>>,
        mix |-> <<>>]

\* _create_lofi_filter(duration)
CreateLofiFilter(duration) ==
  [inputs |-> 2, trim |-> duration, fade_out_start |-> duration - 4,
   bgm_volume |-> 85, voice_volume |-> 0, voice_delay |-> 0, amix |-> FALSE,
   highpass |-> 60, lowpass |-> 15000,
   video |-> LofiVideoChain(duration),
   bgm |-> <<Step("volume", 85, 0), Step("aloop", -1, 2000000000),
             Step("atrim", duration, 0), Step("compand", 0, 0),
             Step("highpass", 60, 0), Step("lowpass", 15000, 0),
             Step("afade_in", 0, 4), Step("afade_out", duration - 5, 5)>>,
   voice |-> <<>>,
   mix |-> <<>>]

\* the length of a stream that never ends
Endless == 1000000

Shorter(a, b) == IF a <= b THEN a ELSE b
Longer(a, b) == IF a >= b THEN a ELSE b

\* what a filter makes of a stream of len seconds: loop=-1 repeats it for
\* ever, trim cuts it at its duration, adelay puts silence before it, the
\* other filters keep its length
StepLength(step, len) ==
  IF step.op \in {"loop", "aloop"}
  THEN (IF step.a = -1 THEN Endless ELSE Shorter(Endless, len * (step.a + 1)))
  ELSE IF step.op \in {"trim", "atrim"} THEN Shorter(len, step.a)
  ELSE IF step.op = "adelay" THEN Shorter(Endless, len + step.a)
  ELSE len

RECURSIVE ChainLength(_, _)
ChainLength(chain, len) ==
  IF chain = <<>> THEN len
  ELSE ChainLength(Tail(chain), StepLength(Head(chain), len))

\* the command without its '-t' argument
OutputUnlimited(len, target_duration) == len

\* '-t', str(target_duration): the output ends at target_duration
OutputLimited(len, target_duration) == Shorter(len, target_duration)

\* the streams [video_out] and [audio_out] of the file the command writes:
\* amix=duration=longest lasts as long as the longer of [bgm] and [voice]
OutputStreams(filter, lengths, target_duration) ==
  LET bgm == ChainLength(filter.bgm, lengths.music)
      voice == ChainLength(filter.voice, lengths.voice)
      audio == IF filter.amix THEN ChainLength(filter.mix, Longer(bgm, voice)) ELSE bgm
  IN [video |-> OutputLimited(ChainLength(filter.video, lengths.video), target_duration),
      audio |-> OutputLimited(audio, target_duration)]

\* the lengths of the source video, of the music and of the voiceover: shorter
\* than every target, near the shortest target, longer than every target
Lengths == {MinMotivationDuration - 10, MinMotivationDuration - 2, MaxLofiDuration + 100}

\* the -i arguments of the command
CommandInputs(kind, has_voiceover) ==
  IF kind = MOTIVATION /\ has_voiceover THEN <<"video", "bgm", "voiceover">>
  ELSE <<"video", "bgm">>

\* compose_motivation_video / compose_lofi_video up to the engine run: the
\* media are made local (local tells whether that worked; a failure raises
\* before the try), the filter and the command are built
compose_video(local) ==
  /\ project.stage = "compose"
  /\ project' =
       IF ~local THEN Raised(project, "download")
       ELSE LET has_voiceover == project.voiceover # "none"
            IN [project EXCEPT
                  !.stage = "engine",
                  !.filter = IF project.kind = MOTIVATION
                             THEN CreateMotivationFilter(project.duration, has_voiceover)
                             ELSE CreateLofiFilter(project.duration),
                  !.inputs = CommandInputs(project.kind, has_voiceover)]
  /\ UNCHANGED batch_vars

EngineExits == {"zero", "nonzero", "timeout"}

\* EngineFailed that takes a run that timed out for a run that ended
EngineFailedByExitOnly(exit) == exit = "nonzero"

\* subprocess.run(cmd, ..., timeout=300) raises TimeoutExpired, and a
\* returncode other than 0 raises in the next statement
EngineFailed(exit) == exit # "zero"

\* an except clause of the composer that leaves the output file where it is
ComposeFailedKeepsOutput(p) == p

\* the except clause of compose_motivation_video / compose_lofi_video: the
\* output file is removed if it exists, and the exception is raised again
ComposeFailed(p) == [p EXCEPT !.output = FALSE]

\* the engine run and the test of its return code; written tells whether a
\* failed run left an output file, which the except clause finds; a run that
\* exits with 0 has read media of some lengths and written the streams the
\* command describes
run_engine(exit, written) ==
  /\ project.stage = "engine"
  /\ IF EngineFailed(exit)
     THEN project' =
            Raised(ComposeFailed([project EXCEPT !.exit = exit, !.written = written,
                                                 !.output = written]),
                   IF exit = "timeout" THEN "engine timeout" ELSE "engine exit")
     ELSE \E video \in Lengths, music \in Lengths, voice \in Lengths :
            LET lengths == [video |-> video, music |-> music,
                            voice |-> IF project.filter.amix THEN voice ELSE 0]
            IN project' = [project EXCEPT
                             !.exit = exit, !.written = TRUE, !.output = TRUE,
                             !.lengths = lengths,
                             !.streams = OutputStreams(project.filter, lengths,
                                                       project.duration),
                             !.stage = "probe"]
  /\ UNCHANGED batch_vars

Probes == {"ok", "zero duration", "failed", "unreadable"}

\* _get_video_info(file_path): the dictionary of the probe, or {} when ffprobe
\* fails or its output cannot be read; has tells whether 'duration' is there
GetVideoInfo(probe, duration) ==
  IF probe = "ok" THEN [has |-> TRUE, duration |-> duration]
  ELSE IF probe = "zero duration" THEN [has |-> TRUE, duration |-> 0]
  ELSE [has |-> FALSE, duration |-> 0]

\* ProcessedVideo(..., duration=video_info.get('duration', target_duration))
ProcessedVideo(video_info, target_duration, voiceover_path) ==
  [made |-> TRUE,
   duration |-> IF video_info.has THEN video_info.duration ELSE target_duration,
   voiceover_path |-> voiceover_path]

\* the probe of the output and the ProcessedVideo built from it; a call of the
\* composer alone (job 0) returns here, the service goes on to finalize
get_video_info(probe) ==
  /\ project.stage = "probe"
  /\ project' = [project EXCEPT
                   !.probe = probe,
                   !.processed_video =
                      ProcessedVideo(GetVideoInfo(probe, project.duration),
                                     project.duration,
                                     IF project.kind = MOTIVATION
                                     THEN project.voiceover ELSE "none"),
                   !.stage = IF project.job = 0 THEN "returned" ELSE "finalize"]
  /\ UNCHANGED batch_vars

Storages == {"local", "uploaded", "upload failed"}

\* the upload followed by the removal of the local file, before the record
\* is updated
UploadedAndCleaned(p) ==
  [p EXCEPT !.uploaded = TRUE, !.output = FALSE, !.stage = "record"]

\* upload_video_file returned the url of the video: _finalize_project goes on
\* to store the project
Uploaded(p) == [p EXCEPT !.uploaded = TRUE, !.stage = "record"]

\* _finalize_project, up to the upload: without a storage service the local
\* paths are returned ('storage': 'local'); with one the video is uploaded,
\* and upload_video_file returning None raises
finalize_project(storage) ==
  /\ project.stage = "finalize"
  /\ project' =
       IF storage = "local"
       THEN [project EXCEPT !.storage = storage, !.result = "video_path",
                            !.stage = "returned"]
       ELSE IF storage = "upload failed"
       THEN Raised([project EXCEPT !.storage = storage], "upload")
       ELSE Uploaded([project EXCEPT !.storage = storage])
  /\ UNCHANGED batch_vars

\* storage_service.store_complete_project(...): the project's record is
\* updated with the urls and the status 'completed'; it raises when the
\* update fails (stored is FALSE)
store_complete_project(stored) ==
  /\ project.stage = "record"
  /\ project' = IF stored THEN [project EXCEPT !.recorded = TRUE, !.stage = "cleanup"]
                ELSE Raised(project, "record")
  /\ UNCHANGED batch_vars

\* self.video_composer.cleanup_temp_files(temp_files), and the return of the
\* urls ('storage': 'supabase')
cleanup_temp_files ==
  /\ project.stage = "cleanup"
  /\ project' = [project EXCEPT !.output = FALSE, !.result = "video_url",
                                !.stage = "returned"]
  /\ UNCHANGED batch_vars

\* the service returned to the worker: lines 364-370
generation_returned(t) ==
  /\ Serving(t)
  /\ project.stage = "returned"
  /\ item_completed(t)

\* the service raised to the worker: lines 374-378
generation_raised(t, text) ==
  /\ Serving(t)
  /\ project.stage = "raised"
  /\ item_failed(t, text)

\* ------------------------------------------------- concurrent compositions
\* The threads that call the video service at the same time (the workers of
\* the batch processor, the request threads of api.py) share one
\* VideoComposer and its temp_dir.  service.calls[t].stage is the place of
\* thread t's call: "video", "audio", "engine", "done".
service_vars == <<is_running, worker_threads, threads, jobs, job_history,
                  current_jobs, job_queue, scheduled, clock, stats,
                  job_callbacks, ctl, last, observe, project, polled, requests,
                  loaded, background_tasks, handlers>>

MOTIVATION_VIDEO == "motivation_video_"
LOFI_VIDEO == "lofi_video_"

\* OutputPath without the project id in the file name
OutputPathOfKind(kind, id) ==
  [name |-> IF kind = MOTIVATION THEN MOTIVATION_VIDEO ELSE LOFI_VIDEO, id |-> 0]

\* output_path = os.path.join(self.temp_dir, f"motivation_video_{project.id}.mp4")
\* and f"lofi_video_{project.id}.mp4"
OutputPath(kind, id) ==
  [name |-> IF kind = MOTIVATION THEN MOTIVATION_VIDEO ELSE LOFI_VIDEO, id |-> id]

\* the default_name given to _ensure_local_video and to _ensure_local_audio
DefaultVideoName(kind) == IF kind = MOTIVATION THEN "motivation_bg.mp4" ELSE "lofi_bg.mp4"
DefaultAudioName(kind) == IF kind = MOTIVATION THEN "motivation_bgm.mp3" ELSE "lofi_music.mp3"

\* the file of the media library a url that is a local path names
LibraryFile == [name |-> "library", id |-> 0]

\* _ensure_local_video / _ensure_local_audio: a url that is the path of a
\* file is returned as it is, another is copied to temp_dir/default_name
EnsureLocal(exists, default_name) ==
  IF exists THEN LibraryFile ELSE [name |-> default_name, id |-> 0]

\* a file of temp_dir is written by the composition of project id
Write(path, id) == service.temp_dir \cup {[path |-> path, project |-> id]}

\* generate_motivation_video / generate_lofi_video called by thread t:
\* VideoProject(id=str(uuid.uuid4())) draws an id no project had, and the
\* composer derives the output path from it
compose_request(t, kind) ==
  /\ service.calls[t].stage = "idle"
  /\ service.uuids < MaxVideos
  /\ LET id == service.uuids + 1
     IN service' = [service EXCEPT
                      !.uuids = id,
                      !.calls[t] = [NoComposition EXCEPT
                                      !.id = id, !.kind = kind, !.stage = "video",
                                      !.output_path = OutputPath(kind, id)]]
  /\ UNCHANGED service_vars

\* video_path = self._ensure_local_video(media.video.url, ...)
ensure_local_video(t, exists) ==
  /\ service.calls[t].stage = "video"
  /\ LET call == service.calls[t]
         path == EnsureLocal(exists, DefaultVideoName(call.kind))
     IN service' = [service EXCEPT
                      !.calls[t].video_path = path,
                      !.calls[t].stage = "audio",
                      !.temp_dir = IF exists THEN @ ELSE Write(path, call.id)]
  /\ UNCHANGED service_vars

\* bgm_path = self._ensure_local_audio(media.audio.url, ...)
ensure_local_audio(t, exists) ==
  /\ service.calls[t].stage = "audio"
  /\ LET call == service.calls[t]
         path == EnsureLocal(exists, DefaultAudioName(call.kind))
     IN service' = [service EXCEPT
                      !.calls[t].audio_path = path,
                      !.calls[t].stage = "engine",
                      !.temp_dir = IF exists THEN @ ELSE Write(path, call.id)]
  /\ UNCHANGED service_vars

\* the engine reads the local media and writes the output path
engine_run(t) ==
  /\ service.calls[t].stage = "engine"
  /\ service' = [service EXCEPT
                   !.calls[t].stage = "done",
                   !.temp_dir = Write(service.calls[t].output_path, service.calls[t].id)]
  /\ UNCHANGED service_vars

\* the call returns or raises: the thread is free for another request
compose_return(t) ==
  /\ service.calls[t].stage = "done"
  /\ service' = [service EXCEPT !.calls[t] = NoComposition]
  /\ UNCHANGED service_vars

InitService ==
  /\ Constructed
  /\ observe = {}
  /\ project = NoProject
  /\ polled = NoPoll
  /\ requests = Requested
  /\ service = NoService
  /\ loaded = NoLoads
  /\ background_tasks = NoTasks
  /\ handlers = NoHandlers

NextService ==
  \/ \E t \in Threads, kind \in {MOTIVATION, LOFI} : compose_request(t, kind)
  \/ \E t \in Threads, exists \in BOOLEAN : ensure_local_video(t, exists)
  \/ \E t \in Threads, exists \in BOOLEAN : ensure_local_audio(t, exists)
  \/ \E t \in Threads : engine_run(t)
  \/ \E t \in Threads : compose_return(t)

SpecService == InitService /\ [][NextService]_vars

\* ------------------------------------------------- the asynchronous endpoints
\* api.py, generate_motivation_video and generate_lofi_video with
\* async = true.  Flask serves each request in a thread of its own
\* (app.run(..., threaded=True), line 398), and background_tasks is a module
\* dictionary no lock guards.  handlers[r].pc is the place of request r:
\* "idle" (not made), "named" (task id computed), "running" (initial status
\* stored and the background thread started), "done" (the thread has stored
\* its outcome).
api_vars == <<is_running, worker_threads, threads, jobs, job_history,
              current_jobs, job_queue, scheduled, clock, stats,
              job_callbacks, ctl, last, observe, project, polled, requests,
              service, loaded>>

MOTIVATION_TASK == "motivation_"
LOFI_TASK == "lofi_"

\* f"motivation_{len(background_tasks) + 1}" and f"lofi_{len(background_tasks) + 1}"
TaskId(prefix, tasks) == <<prefix, Cardinality(DOMAIN tasks) + 1>>

\* background_tasks[task_id] = {'status': status, ...}
StoreTask(tasks, task_id, status) ==
  [k \in DOMAIN tasks \cup {task_id} |-> IF k = task_id THEN status ELSE tasks[k]]

\* lines 57 and 128: the handler computes the task id
async_request(r, prefix) ==
  /\ handlers[r].pc = "idle"
  /\ handlers' = [handlers EXCEPT ![r] =
                    [pc |-> "named", task_id |-> TaskId(prefix, background_tasks)]]
  /\ UNCHANGED background_tasks
  /\ UNCHANGED api_vars

\* lines 77-84 and 147-154: the initial status is stored, the background
\* thread is started, and the handler returns the task id
store_initial_status(r) ==
  /\ handlers[r].pc = "named"
  /\ background_tasks' = StoreTask(background_tasks, handlers[r].task_id, "running")
  /\ handlers' = [handlers EXCEPT ![r].pc = "running"]
  /\ UNCHANGED api_vars

\* generate_async, lines 60-75 and 130-145: the generation returned
\* (status "completed") or raised (status "failed")
generate_async(r, status) ==
  /\ handlers[r].pc = "running"
  /\ background_tasks' = StoreTask(background_tasks, handlers[r].task_id, status)
  /\ handlers' = [handlers EXCEPT ![r].pc = "done"]
  /\ UNCHANGED api_vars

InitTasks ==
  /\ Constructed
  /\ observe = {}
  /\ project = NoProject
  /\ polled = NoPoll
  /\ requests = Requested
  /\ service = NoService
  /\ loaded = NoLoads
  /\ background_tasks = NoTasks
  /\ handlers = NoHandlers

NextTasks ==
  \/ \E r \in Requests, prefix \in {MOTIVATION_TASK, LOFI_TASK} : async_request(r, prefix)
  \/ \E r \in Requests : store_initial_status(r)
  \/ \E r \in Requests, status \in {"completed", "failed"} : generate_async(r, status)

SpecTasks == InitTasks /\ [][NextTasks]_vars

\* ------------------------------------------------- the specification
\* the steps of a processor no callback is registered with
Next ==
  \/ \E n \in 0..MaxItems, duration \in Durations, now \in Readings :
       create_motivation_batch(n, duration, now)
  \/ \E n \in 0..MaxItems, duration \in Durations, now \in Readings :
       create_lofi_batch(n, duration, now)
  \/ \E specs \in JobSpecs, now \in Readings : create_mixed_batch(specs, now)
  \/ \E specs \in JobSpecs : create_scheduled_batch(specs)
  \/ \E id \in JobIds, now \in Readings : scheduled_execution(id, now)
  \/ start_processing
  \/ stop_processing
  \/ stop_processing_return
  \/ \E t \in Threads : worker_exit(t)
  \/ \E t \in Threads : worker_get(t)
  \/ \E t \in Threads : process_begin(t)
  \/ \E t \in Threads : stop_observed(t)
  \/ \E t \in Threads : item_start(t)
  \/ \E t \in Threads : item_completed(t)
  \/ \E t \in Threads, text \in ErrorTexts : item_failed(t, text)
  \/ \E t \in Threads : update_progress(t)
  \/ \E t \in Threads : process_end(t)
  \/ \E id \in JobIds : cancel_batch(id)
  \/ \E id \in JobIds : get_batch_status(id)

\* the steps of a processor with callbacks
NextCallbacks ==
  \/ Next
  \/ \E id \in JobIds : register_progress_callback(id)
  \/ \E t \in Threads : callback_returned(t)
  \/ \E t \in Threads : callback_raised(t)

Spec == Init /\ [][Next]_vars

\* a worker of a running processor holds a job of MaxItems items and stands
\* at its first item
InitGenerate ==
  /\ is_running = TRUE
  /\ worker_threads = {1}
  /\ threads = [t \in Threads |->
                  IF t = 1 THEN [pc |-> "loop", job |-> 1, i |-> 1] ELSE IdleThread]
  /\ jobs = <<[BatchJob(ItemsOf([k \in 1..MaxItems |-> 1])) EXCEPT !.status = RUNNING]>>
  /\ job_history = {1}
  /\ current_jobs = {1}
  /\ job_queue = <<>>
  /\ scheduled = {}
  /\ clock = 0
  /\ stats = [total_jobs |-> 1, completed_jobs |-> 0, failed_jobs |-> 0,
              total_videos_generated |-> 0]
  /\ job_callbacks = {}
  /\ ctl = "idle"
  /\ last = NoCall
  /\ observe = {}
  /\ project = NoProject
  /\ polled = NoPoll
  /\ requests = Requested
  /\ service = NoService
  /\ loaded = NoLoads
  /\ background_tasks = NoTasks
  /\ handlers = NoHandlers

\* the steps of the worker through its job, with every generation followed
NextGenerate ==
  \/ \E t \in Threads : item_start(t)
  \/ \E t \in Threads, kind \in {MOTIVATION, LOFI}, duration \in Durations :
       generate_video(t, kind, duration)
  \/ generate_content
  \/ \E found \in BOOLEAN : acquire_media(found)
  \/ \E tts \in {"ok", "unavailable", "failed"} : generate_voiceover_audio(tts)
  \/ \E local \in BOOLEAN : compose_video(local)
  \/ \E exit \in EngineExits, written \in BOOLEAN : run_engine(exit, written)
  \/ \E probe \in Probes : get_video_info(probe)
  \/ \E storage \in Storages : finalize_project(storage)
  \/ \E stored \in BOOLEAN : store_complete_project(stored)
  \/ cleanup_temp_files
  \/ \E t \in Threads : generation_returned(t)
  \/ \E t \in Threads, text \in ErrorTexts : generation_raised(t, text)
  \/ \E t \in Threads : update_progress(t)
  \/ \E t \in Threads : process_end(t)

SpecGenerate == InitGenerate /\ [][NextGenerate]_vars

\* compose_motivation_video or compose_lofi_video is called, by any caller,
\* with a media collection with or without a voiceover
InitCompose ==
  /\ Constructed
  /\ observe = {}
  /\ polled = NoPoll
  /\ requests = Requested
  /\ service = NoService
  /\ loaded = NoLoads
  /\ background_tasks = NoTasks
  /\ handlers = NoHandlers
  /\ \E kind \in {MOTIVATION, LOFI}, duration \in Durations,
        voiceover \in {"none", "file"} :
       project = [NoProject EXCEPT !.kind = kind, !.duration = duration,
                                   !.voiceover = voiceover, !.stage = "compose"]

NextCompose ==
  \/ \E local \in BOOLEAN : compose_video(local)
  \/ \E exit \in EngineExits, written \in BOOLEAN : run_engine(exit, written)
  \/ \E probe \in Probes : get_video_info(probe)

SpecCompose == InitCompose /\ [][NextCompose]_vars

\* the processor with callbacks registered for its jobs, asked for one video
\* less
InitCallbacks ==
  /\ Constructed
  /\ observe = {}
  /\ project = NoProject
  /\ polled = NoPoll
  /\ requests = [jobs |-> MaxJobs, videos |-> MaxVideos - 1]
  /\ service = NoService
  /\ loaded = NoLoads
  /\ background_tasks = NoTasks
  /\ handlers = NoHandlers

SpecCallbacks == InitCallbacks /\ [][NextCallbacks]_vars

\* the polls of one job's status
SpecPolls == InitPolls /\ [][Next]_vars

SpecCalls == InitCalls /\ [][Next]_vars

SpecStatusCalls == InitStatusCalls /\ [][Next]_vars

SpecCreateCalls == InitCreateCalls /\ [][Next]_vars

\* a processor that has been started and is never stopped: its worker polls
\* the queue, and callers create one batch more than in the other behaviours;
\* what the creations return is recorded
InitLive ==
  /\ is_running = TRUE
  /\ worker_threads = {1}
  /\ threads = [t \in Threads |->
                  IF t = 1 THEN [pc |-> "poll", job |-> 0, i |-> 0] ELSE IdleThread]
  /\ jobs = <<>>
  /\ job_history = {}
  /\ current_jobs = {}
  /\ job_queue = <<>>
  /\ scheduled = {}
  /\ clock = 0
  /\ stats = [total_jobs |-> 0, completed_jobs |-> 0, failed_jobs |-> 0,
              total_videos_generated |-> 0]
  /\ job_callbacks = {}
  /\ ctl = "idle"
  /\ last = NoCall
  /\ observe = {"create", "scheduled"}
  /\ project = NoProject
  /\ polled = NoPoll
  /\ requests = [jobs |-> MaxJobs + 1, videos |-> MaxVideos]
  /\ service = NoService
  /\ loaded = NoLoads
  /\ background_tasks = NoTasks
  /\ handlers = NoHandlers

\* the steps of one worker through a job
WorkerStep(t) ==
  \/ worker_get(t)
  \/ process_begin(t)
  \/ item_start(t)
  \/ item_completed(t)
  \/ \E text \in ErrorTexts : item_failed(t, text)
  \/ update_progress(t)
  \/ process_end(t)

\* nobody stops the processor and nobody cancels
NextLive ==
  \/ \E n \in 0..MaxItems, duration \in Durations, now \in Readings :
       create_motivation_batch(n, duration, now)
  \/ \E specs \in JobSpecs, now \in Readings : create_mixed_batch(specs, now)
  \/ \E specs \in JobSpecs : create_scheduled_batch(specs)
  \/ \E id \in 1..(MaxJobs + 1), now \in Readings : scheduled_execution(id, now)
  \/ \E t \in Threads : WorkerStep(t)

\* a worker thread that can take a step takes one (the threads are scheduled
\* by the operating system, and every generation returns or raises), and the
\* sleep of a scheduling thread ends
FairLive ==
  /\ \A t \in Threads : WF_vars(WorkerStep(t))
  /\ \A id \in 1..(MaxJobs + 1) : WF_vars(\E now \in Readings : scheduled_execution(id, now))

SpecLive == InitLive /\ [][NextLive]_vars /\ FairLive

\* the processor with the statements that update the statistics taken one
\* by one; nobody cancels and nobody reads the status
NextStats ==
  \/ \E n \in 0..MaxItems, duration \in Durations, now \in Readings :
       create_motivation_batch(n, duration, now)
  \/ \E specs \in JobSpecs, now \in Readings : create_mixed_batch(specs, now)
  \/ start_processing
  \/ stop_processing
  \/ stop_processing_return
  \/ \E t \in Threads : worker_exit(t)
  \/ \E t \in Threads : worker_get(t)
  \/ \E t \in Threads : process_begin(t)
  \/ \E t \in Threads : stop_observed(t)
  \/ \E t \in Threads : item_start(t)
  \/ \E t \in Threads : item_completed(t)
  \/ \E t \in Threads, text \in ErrorTexts : item_failed(t, text)
  \/ \E t \in Threads : update_progress(t)
  \/ \E t \in Threads : complete_job(t)
  \/ \E t \in Threads : count_job(t)
  \/ \E t \in Threads : count_videos(t)
  \/ \E t \in Threads : leave_job(t)

SpecStats == Init /\ [][NextStats]_vars

\* a processor that is started and not stopped, whose callers create
\* batches, read their status and clean the job table
NextCleanup ==
  \/ \E n \in 0..MaxItems, duration \in Durations, now \in Readings :
       create_motivation_batch(n, duration, now)
  \/ \E specs \in JobSpecs : create_scheduled_batch(specs)
  \/ \E id \in JobIds, now \in Readings : scheduled_execution(id, now)
  \/ start_processing
  \/ \E t \in Threads : WorkerStep(t)
  \/ \E id \in JobIds : get_batch_status(id)
  \/ \E aged \in SUBSET JobIds, done \in SUBSET JobIds : cleanup_old_batches(aged, done)

SpecCleanup == InitStatusCalls /\ [][NextCleanup]_vars

\* the processor asked for one video less, with what cancel_batch returns
\* recorded
InitCancelCalls ==
  /\ Constructed
  /\ observe = {"cancel"}
  /\ project = NoProject
  /\ polled = NoPoll
  /\ requests = [jobs |-> MaxJobs, videos |-> MaxVideos - 1]
  /\ service = NoService
  /\ loaded = NoLoads
  /\ background_tasks = NoTasks
  /\ handlers = NoHandlers

SpecCancelCalls == InitCancelCalls /\ [][Next]_vars

\* ------------------------------------------------- properties
Jobs == 1..Len(jobs)
ItemsOfJob(j) == 1..Len(jobs[j].items)
ItemsWith(j, status) == {i \in ItemsOfJob(j) : jobs[j].items[i].status = status}
Processed(j) == jobs[j].completed_items + jobs[j].failed_items
Terminal == {COMPLETED, FAILED, CANCELLED}
\* the threads that are inside the loop over the items of job j
InLoop(j) == {t \in Threads : threads[t].job = j /\ threads[t].pc \in {"loop", "gen", "post", "callback"}}
LiveThreads == {t \in Threads : threads[t].pc # "dead"}
Generating == {t \in Threads : threads[t].pc = "gen"}

\* the errors raised by compose_motivation_video / compose_lofi_video
CompositionErrors == {"download", "engine exit", "engine timeout"}

\* C1: in every reachable state, for every job, 0 <= completed_items +
\* failed_items <= total_items, and total_items is the number of items the
\* job was created with.
C1_CountersWithinTotal ==
  \A j \in Jobs :
    /\ jobs[j].completed_items >= 0
    /\ jobs[j].failed_items >= 0
    /\ Processed(j) <= jobs[j].total_items
    /\ jobs[j].total_items = Len(jobs[j].items)

\* a job of two items, one completed and one failed, that was cancelled on the way
C1_Witness ==
  \E j \in Jobs :
    /\ jobs[j].total_items = 2
    /\ jobs[j].completed_items = 1
    /\ jobs[j].failed_items = 1
    /\ jobs[j].status = CANCELLED

\* C2: every dictionary get_batch_status returns has progress ==
\* floor(100 * (completed_items + failed_items) / total_items).
C2_SnapshotProgressMatchesCounters ==
  (last.op = "status" /\ last.ret = "dict" /\ last.total_items > 0) =>
    last.progress = (100 * (last.completed_items + last.failed_items)) \div last.total_items

\* C3: when the generation of item i of a job raises, the item becomes FAILED
\* with the exception's text, failed_items grows by one, completed_items, the
\* job's status and the statistics stay, and the worker stays in the job: it
\* writes the progress, calls the callback registered for the job, if any, and
\* then stands at item i + 1 of the same job.
C3_ItemFailureContained ==
  [][\A t \in Threads :
       LET j == threads[t].job
           i == threads[t].i
       IN /\ (At(t, "gen") /\ jobs'[j].items[i].status = ITEM_FAILED) =>
               /\ jobs'[j].items[i].error_message \in ErrorTexts
               /\ jobs'[j].items[i].result = FALSE
               /\ jobs'[j].failed_items = jobs[j].failed_items + 1
               /\ jobs'[j].completed_items = jobs[j].completed_items
               /\ jobs'[j].status = jobs[j].status
               /\ stats' = stats
               /\ threads'[t] = [pc |-> "post", job |-> j, i |-> i]
          /\ (At(t, "post") /\ jobs[j].items[i].status = ITEM_FAILED
                /\ threads'[t] # threads[t]) =>
               /\ jobs'[j].status = jobs[j].status
               /\ threads'[t] = IF j \in job_callbacks
                                THEN [pc |-> "callback", job |-> j, i |-> i]
                                ELSE IF i < jobs[j].total_items
                                THEN [pc |-> "loop", job |-> j, i |-> i + 1]
                                ELSE [pc |-> "finish", job |-> j, i |-> i]
          /\ (At(t, "callback") /\ jobs[j].items[i].status = ITEM_FAILED
                /\ threads'[t] # threads[t]) =>
               /\ jobs'[j].status = jobs[j].status
               /\ threads'[t] = IF i < jobs[j].total_items
                                THEN [pc |-> "loop", job |-> j, i |-> i + 1]
                                ELSE [pc |-> "finish", job |-> j, i |-> i]
          /\ (At(t, "loop") /\ is_running /\ threads'[t] # threads[t]) =>
               /\ threads'[t] = [pc |-> "gen", job |-> j, i |-> i]
               /\ jobs'[j].items[i].started]_vars

\* the first item of a job has failed and its worker has started the second
C3_Witness ==
  \E j \in Jobs :
    /\ jobs[j].total_items = 2
    /\ jobs[j].items[1].status = ITEM_FAILED
    /\ jobs[j].items[2].started
    /\ \E t \in Threads : threads[t] = [pc |-> "gen", job |-> j, i |-> 2]

\* C4: once cancel_batch has cancelled a job a worker is running, no item of
\* the job that was not started then is started, completed or failed.
C4_NoItemStartedAfterCancel ==
  [][\A j \in Jobs :
       (jobs[j].status = CANCELLED /\ InLoop(j) # {}) =>
         \A i \in ItemsOfJob(j) :
           ~jobs[j].items[i].started => jobs'[j].items[i] = jobs[j].items[i]]_vars

\* C5: a job's status moves along pending -> running -> {completed, failed,
\* cancelled} only, and a completed, failed or cancelled job keeps its status.
C5_StatusMovesForward ==
  [][\A j \in Jobs :
       \/ jobs'[j].status = jobs[j].status
       \/ jobs[j].status = PENDING /\ jobs'[j].status = RUNNING
       \/ jobs[j].status = RUNNING /\ jobs'[j].status \in Terminal]_vars

C7_CompletedJobHasAllItems ==
  \A j \in Jobs :
    (\/ jobs[j].status = COMPLETED
     \/ \E t \in Threads : threads[t].job = j /\ At(t, "finish") /\ jobs[j].status # CANCELLED) =>
      /\ ItemsWith(j, ITEM_COMPLETED) \cup ItemsWith(j, ITEM_FAILED) = ItemsOfJob(j)
      /\ jobs[j].failed_items = Cardinality(ItemsWith(j, ITEM_FAILED))
      /\ jobs[j].completed_items = Cardinality(ItemsWith(j, ITEM_COMPLETED))
      /\ Processed(j) = jobs[j].total_items

\* a COMPLETED job of two items of which one failed
C7_Witness ==
  \E j \in Jobs :
    /\ jobs[j].status = COMPLETED
    /\ jobs[j].total_items = 2
    /\ jobs[j].failed_items = 1
    /\ jobs[j].completed_items = 1

\* C8: no job is FAILED and failed_jobs stays 0, whatever items fail; a job
\* that has left its worker is COMPLETED or CANCELLED.
C8_ItemFailuresNeverFailJob ==
  /\ stats.failed_jobs = 0
  /\ \A j \in Jobs :
       /\ jobs[j].status # FAILED
       /\ (jobs[j].failed_items > 0 /\ \A t \in Threads : threads[t].job # j) =>
            jobs[j].status \in {COMPLETED, CANCELLED}

\* a COMPLETED job all of whose items failed
C8_Witness ==
  \E j \in Jobs :
    /\ jobs[j].status = COMPLETED
    /\ jobs[j].total_items = 2
    /\ jobs[j].failed_items = 2

\* C9: at most max_concurrent_jobs worker threads are alive, and at most
\* that many items are being generated.
C9_AtMostPoolSizeWorkers ==
  /\ Cardinality(LiveThreads) <= max_concurrent_jobs
  /\ Cardinality(Generating) <= max_concurrent_jobs

\* C10: a submission never fails in the queue, and a worker takes from the
\* queue a job whose priority (the maximum of its items' priorities) no
\* queued job exceeds and which was queued no later than the queued jobs of
\* its priority.
PriorityOfJob(j) == MaxPriorityOf(jobs[j].items)
QueuedAt(j) == (CHOOSE k \in DOMAIN job_queue : job_queue[k][3] = j)

C10_HighestPriorityFirstFifo ==
  [][/\ last'.ret # "TypeError"
     /\ \A t \in Threads :
          (At(t, "poll") /\ threads'[t].pc = "got") =>
            LET j == threads'[t].job
            IN /\ j \in QueuedJobs
               /\ \A k \in QueuedJobs \ {j} :
                    \/ PriorityOfJob(k) < PriorityOfJob(j)
                    \/ /\ PriorityOfJob(k) = PriorityOfJob(j)
                       /\ job_queue[QueuedAt(j)][2] <= job_queue[QueuedAt(k)][2]]_vars

Finished(j, i) == jobs[j].items[i].status \in {ITEM_COMPLETED, ITEM_FAILED}

Holders(j) == {t \in Threads : threads[t].job = j}

\* C12: a job is held by at most one worker at any time; a worker takes a job
\* only from the queue, and only a job no worker has touched (no item started
\* or counted); and a worker lets go of its job only at the end of
\* _process_batch_job, with every item finished or the job CANCELLED, so it
\* takes no other job in between.
C12_OneWorkerPerJobOnce ==
  [][/\ \A j \in Jobs : Cardinality({t \in Threads : threads'[t].job = j}) <= 1
     /\ \A t \in Threads :
          threads'[t].job # threads[t].job =>
            \/ /\ At(t, "poll")
               /\ threads[t].job = 0
               /\ threads'[t].job \in QueuedJobs
               /\ threads'[t].job \notin {job_queue'[k][3] : k \in DOMAIN job_queue'}
               /\ Holders(threads'[t].job) = {}
               /\ Processed(threads'[t].job) = 0
               /\ \A i \in ItemsOfJob(threads'[t].job) :
                    ~jobs[threads'[t].job].items[i].started
            \/ /\ At(t, "finish")
               /\ threads'[t].job = 0
               /\ \/ jobs[threads[t].job].status = CANCELLED
                  \/ \A i \in ItemsOfJob(threads[t].job) : Finished(threads[t].job, i)]_vars

\* two workers are alive and each is generating an item of a job of its own
C12_Witness ==
  \E t1, t2 \in Threads :
    /\ t1 # t2
    /\ At(t1, "gen") /\ At(t2, "gen")
    /\ threads[t1].job # threads[t2].job

\* C13: an item changes only in a step of the one worker that holds its job
\* and stands at that item; the item is not finished before the step; it
\* becomes COMPLETED or FAILED only in the step that ends its generation; so
\* a finished item never changes again, and cancel_batch, get_batch_status,
\* start and stop change no item.
C13_ItemWrittenOnceByItsWorker ==
  [][\A j \in Jobs : \A i \in ItemsOfJob(j) :
       jobs'[j].items[i] # jobs[j].items[i] =>
         /\ ~Finished(j, i)
         /\ \E t \in Threads :
              /\ Holders(j) = {t}
              /\ threads[t].i = i
              /\ threads'[t] # threads[t]
              /\ \A u \in Threads \ {t} : threads'[u] = threads[u]
              /\ jobs'[j].items[i].status # jobs[j].items[i].status =>
                   /\ At(t, "gen")
                   /\ jobs'[j].items[i].status \in {ITEM_COMPLETED, ITEM_FAILED}]_vars

\* a cancelled job whose two items are finished, one COMPLETED and one FAILED,
\* with a second worker alive beside the one that processed it
C13_Witness ==
  \E j \in Jobs :
    /\ jobs[j].status = CANCELLED
    /\ jobs[j].total_items = 2
    /\ jobs[j].items[1].status = ITEM_COMPLETED
    /\ jobs[j].items[2].status = ITEM_FAILED
    /\ Cardinality(LiveThreads) = 2

\* C14: when a worker has written the progress after item i of job j, it calls
\* the callback registered for j, if there is one, and only then; at the call
\* the item is finished, the counters count i items and the progress is that
\* of i items; the return of the callback, by value or by exception, changes
\* no job and no statistic and puts the worker at the next item, or at the end
\* of the loop, from where the job becomes COMPLETED unless it was cancelled.
C14_CallbackAfterEveryItem ==
  [][\A t \in Threads :
       LET j == threads[t].job
           i == threads[t].i
       IN threads'[t] # threads[t] =>
            /\ At(t, "post") => (threads'[t].pc = "callback" <=> j \in job_callbacks)
            /\ threads'[t].pc = "callback" =>
                 /\ At(t, "post")
                 /\ threads'[t].job = j /\ threads'[t].i = i
                 /\ jobs'[j].items[i].status \in {ITEM_COMPLETED, ITEM_FAILED}
                 /\ jobs'[j].completed_items + jobs'[j].failed_items = i
                 /\ jobs'[j].progress = ProgressAfter(i, jobs[j].total_items)
            /\ At(t, "callback") =>
                 /\ jobs' = jobs
                 /\ stats' = stats
                 /\ current_jobs' = current_jobs
                 /\ threads'[t] = IF i < jobs[j].total_items
                                  THEN [pc |-> "loop", job |-> j, i |-> i + 1]
                                  ELSE [pc |-> "finish", job |-> j, i |-> i]
            /\ (At(t, "finish") /\ j \in job_callbacks) =>
                 jobs'[j].status = IF jobs[j].status = CANCELLED
                                   THEN CANCELLED ELSE COMPLETED]_vars

\* the callback of a job is being called after the job's second item, which
\* failed, and it was registered before the first item ended
C14_Witness ==
  \E t \in Threads :
    /\ threads[t].pc = "callback"
    /\ threads[t].i = 2
    /\ threads[t].job \in job_callbacks
    /\ jobs[threads[t].job].items[2].status = ITEM_FAILED
    /\ jobs[threads[t].job].progress = 100

\* C15: the progress values a caller is given by successive get_batch_status
\* calls for one job never decrease: each dictionary's progress is at least
\* that of the dictionary before it.
C15_PolledProgressNeverDecreases ==
  [][(polled.id # 0 /\ polled'.id = polled.id) =>
       polled'.progress >= polled.progress]_vars

\* a caller was given less progress and then progress 100 for a job that was
\* cancelled and whose worker outlived a stop of the processor
C15_Witness ==
  /\ polled.rose
  /\ polled.progress = 100
  /\ jobs[polled.id].status = CANCELLED
  /\ ~is_running

\* C16: a batch creation that asks for a duration outside the range of its
\* kind (motivation 30..300 s, lofi 60..600 s) is rejected: its job is neither
\* recorded in job_history nor put on the queue.
C16_OutOfRangeDurationRejected ==
  (/\ last.op = "create"
   /\ last.kind \in {MOTIVATION, LOFI}
   /\ ~DurationAccepted(last.kind, last.duration)) =>
    /\ last.ret = "ValidationError"
    /\ last.id \notin job_history
    /\ last.id \notin QueuedJobs

ProjectItem == jobs[project.job].items[project.i]

\* C17: when the voice synthesis of a motivation item fails or there is no
\* TTS engine, the generation does not fail: it is not raised to the worker
\* and the item does not become FAILED.
C17_VoiceFailureDegrades ==
  project.tts \in {"unavailable", "failed"} =>
    /\ project.stage # "raised"
    /\ ProjectItem.status # ITEM_FAILED

\* C18: compose_motivation_video called with a media collection without a
\* voiceover gives the engine two inputs, the video and the music, and a
\* graph without a voice track and without amix, the music at 60 percent; the
\* absence of the voiceover never raises (only a failed download or engine
\* run does), and after an engine run that exits 0 the call returns a
\* ProcessedVideo without a voiceover path.
C18_NoVoiceoverTwoInputGraph ==
  (project.job = 0 /\ project.kind = MOTIVATION /\ project.voiceover = "none") =>
    /\ project.stage \in {"engine", "probe", "returned"} =>
         /\ project.inputs = <<"video", "bgm">>
         /\ project.filter.inputs = 2
         /\ ~project.filter.amix
         /\ project.filter.voice_volume = 0
         /\ project.filter.bgm_volume = 60
    /\ project.stage = "raised" =>
         project.cause \in {"download", "engine exit", "engine timeout"}
    /\ project.exit = "zero" => project.stage \in {"probe", "returned"}
    /\ project.stage = "returned" =>
         /\ project.processed_video.made
         /\ project.processed_video.voiceover_path = "none"

\* compose_motivation_video has returned for a media collection without a
\* voiceover
C18_Witness ==
  /\ project.job = 0
  /\ project.kind = MOTIVATION
  /\ project.voiceover = "none"
  /\ project.stage = "returned"
  /\ project.probe = "ok"
  /\ project.filter.bgm_volume = 60

\* C19: a composition whose engine run exits 0 but whose probe fails, cannot
\* be read or reports a duration of 0 gives no ProcessedVideo and does not go
\* on to be finalized and returned, so that its item does not become
\* COMPLETED.
C19_UnverifiedOutputFails ==
  project.probe \in {"zero duration", "failed", "unreadable"} =>
    /\ ~project.processed_video.made
    /\ project.stage \notin {"finalize", "record", "cleanup", "returned"}
    /\ ProjectItem.status # ITEM_COMPLETED

EngineFailure ==
  project.stage = "raised" /\ project.cause \in {"engine exit", "engine timeout"}

\* C20: an engine run that exits non-zero or times out ends the generation
\* with an exception (the timeout ends the wait); the worker then makes
\* exactly the item it stands at FAILED, with an error message, counts it in
\* failed_items and changes no other item and not the job's status; the
\* generation of that item is not begun again, and the item never becomes
\* COMPLETED.
C20_EngineFailureFailsItemOnce ==
  [][/\ (project.stage = "engine" /\ project'.exit \in {"nonzero", "timeout"}) =>
          /\ project'.stage = "raised"
          /\ project'.cause = IF project'.exit = "timeout" THEN "engine timeout"
                              ELSE "engine exit"
          /\ jobs' = jobs
     /\ EngineFailure =>
          LET j == project.job
              i == project.i
          IN /\ jobs'[j].items[i].status # ITEM_COMPLETED
             /\ ~Finished(j, i) =>
                  /\ project' = project
                  /\ jobs'[j].items[i].status = ITEM_FAILED
                  /\ jobs'[j].items[i].error_message # NoError
                  /\ jobs'[j].failed_items = jobs[j].failed_items + 1
                  /\ jobs'[j].completed_items = jobs[j].completed_items
                  /\ jobs'[j].status = jobs[j].status
                  /\ \A k \in ItemsOfJob(j) \ {i} : jobs'[j].items[k] = jobs[j].items[k]
             /\ project' # project =>
                  /\ jobs[j].items[i].status = ITEM_FAILED
                  /\ <<project'.job, project'.i>> # <<j, i>>]_vars

\* the engine run of a job's second item timed out and the item is FAILED,
\* while the first item of the job is COMPLETED
C20_Witness ==
  /\ project.i = 2
  /\ project.cause = "engine timeout"
  /\ ProjectItem.status = ITEM_FAILED
  /\ ProjectItem.error_message # NoError
  /\ jobs[project.job].items[1].status = ITEM_COMPLETED

\* C21: whenever a composition ends in error after the engine has been
\* started, no file is left at the composition's output path when the error
\* reaches the caller.
C21_NoPartialOutputAfterError ==
  (project.stage = "raised" /\ project.exit # "" /\ project.cause \in CompositionErrors)
    => ~project.output

\* an engine run that timed out had left a partial file, and the error has
\* reached the worker that waits for the item
C21_Witness ==
  /\ project.stage = "raised"
  /\ project.cause = "engine timeout"
  /\ project.written
  /\ ~project.output

\* the creation of job j has just returned its id to the caller, and the job
\* has items
Submitted(j) ==
  /\ j <= Len(jobs)
  /\ last.op = "create"
  /\ last.id = j
  /\ last.ret = "ok"
  /\ jobs[j].items # <<>>

\* C22: while the processor stays running, every generation ends and nobody
\* cancels, every submitted job is eventually COMPLETED, with progress 100
\* and completed_items = total_items when none of its items failed.
C22_SubmittedJobCompletes ==
  \A j \in 1..(MaxJobs + 1) :
    Submitted(j) ~>
      (/\ j <= Len(jobs)
       /\ jobs[j].status = COMPLETED
       /\ jobs[j].failed_items = 0 =>
            (jobs[j].progress = 100 /\ jobs[j].completed_items = jobs[j].total_items))

\* the steps a worker that finds the flag cleared has left before it ends:
\* from inside a generation the item is finished (post), its progress written
\* and its callback called, the head of the loop leaves the job (finish), the
\* job is closed and the worker is at the while of its loop (poll)
StopRank(pc) ==
  CASE pc = "dead" -> 0
    [] pc = "poll" -> 1
    [] pc = "finish" -> 2
    [] pc = "loop" -> 3
    [] pc = "callback" -> 4
    [] pc = "got" -> 4
    [] pc = "post" -> 5
    [] pc = "gen" -> 6

\* the step worker t takes, at any place
AnyWorkerStep(t) ==
  \/ WorkerStep(t)
  \/ worker_exit(t)
  \/ stop_observed(t)
  \/ callback_returned(t)

Composing == {t \in Threads : service.calls[t].stage # "idle"}
OutputNames == {MOTIVATION_VIDEO, LOFI_VIDEO}

\* C24: any two composition requests, of the same parameters or not, one
\* after the other or at the same time on two workers, write distinct output
\* paths: an output path is written by the composition of one project only.
C24_DistinctOutputPaths ==
  /\ \A t, u \in Composing :
       t # u => service.calls[t].output_path # service.calls[u].output_path
  /\ \A w, x \in service.temp_dir :
       (w.path.name \in OutputNames /\ w.path = x.path) => w.project = x.project

\* two threads composing videos of the same kind at the same time have both
\* written their output
C24_Witness ==
  \E t, u \in Threads :
    /\ t # u
    /\ service.calls[t].stage = "done"
    /\ service.calls[u].stage = "done"
    /\ service.calls[t].kind = service.calls[u].kind

\* the files of temp_dir thread t's composition has written and still uses
LocalCopies(t) ==
  LET call == service.calls[t]
  IN {p \in {call.video_path, call.audio_path} :
        [path |-> p, project |-> call.id] \in service.temp_dir}

\* C25: the local copies of the background video and of the music a worker
\* has acquired for its composition are never written by a composition that
\* runs at the same time on another worker.
C25_OwnLocalCopies ==
  \A t, u \in Composing : t # u => LocalCopies(t) \cap LocalCopies(u) = {}

\* C26: for every target duration and all lengths of the source video, the
\* music and the voiceover, among them music shorter than the target and a
\* voiceover longer than the target less its delay, the video and the audio
\* of the output both last the target duration.
C26_OutputLastsTarget ==
  project.exit = "zero" =>
    /\ project.streams.video = project.duration
    /\ project.streams.audio = project.duration

\* a narrated output whose music was shorter than the target and whose
\* voiceover, delayed, would have ended after it
C26_Witness ==
  /\ project.exit = "zero"
  /\ project.filter.amix
  /\ project.lengths.music < project.duration
  /\ project.lengths.voice + project.filter.voice_delay > project.duration
  /\ project.streams.audio = project.duration

\* the place of the first filter op in a chain (0: none) and its arguments
Pos(chain, op) ==
  IF \E k \in DOMAIN chain : chain[k].op = op
  THEN CHOOSE k \in DOMAIN chain :
         chain[k].op = op /\ \A m \in 1..(k - 1) : chain[m].op # op
  ELSE 0
Arg(chain, op) == IF Pos(chain, op) = 0 THEN 0 ELSE chain[Pos(chain, op)].a
Arg2(chain, op) == IF Pos(chain, op) = 0 THEN 0 ELSE chain[Pos(chain, op)].b

\* a filter graph has been built for the composition
FilterBuilt == project.filter # NoFilter
\* the chain the audio output comes out of
AudioOut == IF project.filter.amix THEN project.filter.mix ELSE project.filter.bgm

\* C27: the levels of the plan are a fixed function of the kind and of
\* whether there is a voiceover: music at 0.20 under a voiceover, 0.60 in a
\* narrated plan without one, 0.85 in an ambient plan; the voiceover at 0.80,
\* delayed by 2 to 3 seconds and not looped; the band 80 Hz-12 kHz in every
\* narrated plan and 60 Hz-15 kHz in the ambient plan.
C27_LevelsAndBands ==
  FilterBuilt =>
    LET f == project.filter
        has_voiceover == project.voiceover # "none"
    IN /\ Arg(f.bgm, "volume") =
            (IF project.kind = LOFI THEN 85 ELSE IF has_voiceover THEN 20 ELSE 60)
       /\ (project.kind = MOTIVATION /\ has_voiceover) =>
            /\ Arg(f.voice, "volume") = 80
            /\ Arg(f.voice, "adelay") \in 2..3
            /\ Pos(f.voice, "aloop") = 0
       /\ Arg(AudioOut, "highpass") = (IF project.kind = LOFI THEN 60 ELSE 80)
       /\ Arg(AudioOut, "lowpass") = (IF project.kind = LOFI THEN 15000 ELSE 12000)

\* C28: in every plan the audio output has a fade-in of 2 to 3 seconds and a
\* fade-out of 3 to 5 seconds that ends at the target duration, and the
\* fades of the video start at the same times and last as long.
C28_FadesMatch ==
  FilterBuilt =>
    LET f == project.filter
    IN /\ Pos(AudioOut, "afade_in") # 0
       /\ Arg2(AudioOut, "afade_in") \in 2..3
       /\ Pos(AudioOut, "afade_out") # 0
       /\ Arg2(AudioOut, "afade_out") \in 3..5
       /\ Arg(AudioOut, "afade_out") + Arg2(AudioOut, "afade_out") = project.duration
       /\ Arg(f.video, "fade_in") = Arg(AudioOut, "afade_in")
       /\ Arg2(f.video, "fade_in") = Arg2(AudioOut, "afade_in")
       /\ Arg(f.video, "fade_out") = Arg(AudioOut, "afade_out")
       /\ Arg2(f.video, "fade_out") = Arg2(AudioOut, "afade_out")

\* C29: in every video chain the composer builds the frame is scaled and
\* cropped to 1920x1080, then looped, then trimmed to the target duration,
\* and in every music chain the loop comes before the trim.
C29_ScaleLoopTrim ==
  FilterBuilt =>
    LET f == project.filter
    IN /\ 0 < Pos(f.video, "scale")
       /\ Pos(f.video, "scale") < Pos(f.video, "crop")
       /\ Pos(f.video, "crop") < Pos(f.video, "loop")
       /\ Pos(f.video, "loop") < Pos(f.video, "trim")
       /\ Arg(f.video, "scale") = 1920 /\ Arg2(f.video, "scale") = 1080
       /\ Arg(f.video, "crop") = 1920 /\ Arg2(f.video, "crop") = 1080
       /\ Arg(f.video, "trim") = project.duration
       /\ 0 < Pos(f.bgm, "aloop")
       /\ Pos(f.bgm, "aloop") < Pos(f.bgm, "atrim")
       /\ Arg(f.bgm, "atrim") = project.duration

\* the filter of an ambient video has been built
C29_Witness ==
  /\ FilterBuilt
  /\ project.kind = LOFI
  /\ project.stage = "engine"
  /\ Len(project.filter.video) = 9

Left(j) ==
  /\ jobs[j].status = CANCELLED
  /\ j \notin QueuedJobs
  /\ j \notin scheduled
  /\ \A t \in Threads : threads[t].job = j => At(t, "finish")

\* C31: a worker that finds the running flag cleared at the head of its loop
\* marks its job CANCELLED and changes nothing else of it (items, counters),
\* nor the queue or the statistics; and a cancelled job that was left stays
\* as it is for ever: it is not queued again, no worker takes it, and none of
\* its fields changes, whatever is started later.
C31_StoppedJobStaysCancelled ==
  [][/\ \A t \in Threads :
          (At(t, "loop") /\ ~is_running /\ threads'[t] # threads[t]) =>
            /\ jobs' = [jobs EXCEPT ![threads[t].job].status = CANCELLED]
            /\ threads'[t].pc = "finish"
            /\ job_queue' = job_queue
            /\ stats' = stats
     /\ \A j \in Jobs : Left(j) => (jobs'[j] = jobs[j] /\ Left(j)')]_vars

\* the processor runs again and its worker polls the queue, while a job that
\* was stopped after its first item keeps its second item not started
C31_Witness ==
  /\ is_running
  /\ \E t \in Threads : At(t, "poll")
  /\ \E j \in Jobs :
       /\ Left(j)
       /\ \A t \in Threads : threads[t].job # j
       /\ Len(jobs[j].items) = 2
       /\ jobs[j].items[1].status = ITEM_COMPLETED
       /\ ~jobs[j].items[2].started
       /\ jobs[j].completed_items = 1

\* every worker thread is idle: it has ended or polls the queue
AllIdle == \A t \in Threads : threads[t].pc \in {"dead", "poll"}

CompletedJobs == {j \in Jobs : jobs[j].status = COMPLETED}

RECURSIVE VideosOf(_)
VideosOf(js) ==
  IF js = {} THEN 0
  ELSE LET j == CHOOSE x \in js : TRUE
       IN jobs[j].completed_items + VideosOf(js \ {j})

\* C32: once all workers are idle, completed_jobs is the number of COMPLETED
\* jobs, total_videos_generated is the sum of their completed_items, and
\* completed_jobs + failed_jobs is at most total_jobs.
C32_StatsMatchJobs ==
  AllIdle =>
    /\ stats.completed_jobs = Cardinality(CompletedJobs)
    /\ stats.total_videos_generated = VideosOf(CompletedJobs)
    /\ stats.completed_jobs + stats.failed_jobs <= stats.total_jobs

\* the jobs a worker is inside _process_batch_job for
InProcess ==
  {threads[t].job : t \in {u \in Threads :
      threads[u].pc \in {"loop", "gen", "post", "callback", "finish",
                         "count_job", "count_videos"}}}

CurrentJobsExact ==
  /\ current_jobs = InProcess
  /\ AllIdle => current_jobs = {}

\* C33: current_jobs holds exactly the jobs a worker is inside
\* _process_batch_job for, it is empty once all workers are idle, and it never
\* holds more than max_concurrent_jobs jobs.
C33_CurrentJobsWithinPool ==
  /\ CurrentJobsExact
  /\ Cardinality(current_jobs) <= max_concurrent_jobs

\* a worker is between the start and the end of an item of job j
MidItem(j) == \E t \in Threads : threads[t].job = j /\ At(t, "gen")

\* C34: while no worker is in the middle of an item of a job, the job's
\* completed_items is the number of its COMPLETED items and the length of
\* its results, its failed_items is the number of its FAILED items, and every
\* FAILED item has an error message and no result.
C34_CountersMatchItems ==
  \A j \in Jobs :
    ~MidItem(j) =>
      /\ jobs[j].completed_items = Cardinality(ItemsWith(j, ITEM_COMPLETED))
      /\ jobs[j].completed_items = Len(jobs[j].results)
      /\ jobs[j].failed_items = Cardinality(ItemsWith(j, ITEM_FAILED))
      /\ \A i \in ItemsWith(j, ITEM_FAILED) :
           /\ jobs[j].items[i].error_message # NoError
           /\ ~jobs[j].items[i].result

\* a job one item of which was completed and the other failed, with its
\* worker past both
C34_Witness ==
  \E j \in Jobs :
    /\ ~MidItem(j)
    /\ \E t \in Threads : threads[t].job = j /\ At(t, "post")
    /\ ItemsWith(j, ITEM_COMPLETED) # {}
    /\ ItemsWith(j, ITEM_FAILED) # {}

\* C35: a creation of a batch that raises leaves the job table, the
\* statistics and the queue as they were.
C35_FailedSubmissionLeavesNothing ==
  [][(last'.op \in {"create", "scheduled"} /\ last'.ret \in {"ValueError", "TypeError"}) =>
       /\ job_history' = job_history
       /\ stats' = stats
       /\ job_queue' = job_queue]_vars

\* job j is queued, waits for its scheduled time, or is being processed
Active(j) ==
  /\ jobs[j].status \in {PENDING, RUNNING}
  /\ j \in QueuedJobs \cup scheduled \cup InProcess

\* C36: a job that is PENDING or RUNNING and queued, scheduled or being
\* processed is in the job table, and get_batch_status does not return None
\* for it.
C36_ActiveJobKeptInTable ==
  /\ \A j \in Jobs : Active(j) => j \in job_history
  /\ \A j \in Jobs :
       (last.op = "status" /\ last.id = j /\ Active(j)) => last.ret # "None"

\* C37: cancel_batch returns True only for a recorded job that is PENDING or
\* RUNNING, and then changes only that job's status; for an unknown id or a
\* job that is COMPLETED, FAILED or CANCELLED it returns False and changes
\* no job, item, counter, queue or statistic.
C37_CancelReturnsAndFrame ==
  [][last'.op = "cancel" =>
       LET id == last'.id
       IN /\ last'.ret \in {"True", "False"}
          /\ last'.ret = "True" =>
               /\ id \in job_history
               /\ jobs[id].status \in {PENDING, RUNNING}
               /\ jobs' = [jobs EXCEPT ![id].status = CANCELLED]
          /\ last'.ret = "False" =>
               /\ id \notin job_history \/ jobs[id].status \in {COMPLETED, FAILED, CANCELLED}
               /\ jobs' = jobs
          /\ UNCHANGED <<is_running, worker_threads, threads, job_history,
                         current_jobs, job_queue, scheduled, stats,
                         job_callbacks>>]_vars

\* cancel_batch has just returned False for a job that is COMPLETED
C37_Witness ==
  /\ last.op = "cancel"
  /\ last.ret = "False"
  /\ last.id \in job_history
  /\ jobs[last.id].status = COMPLETED
  /\ stats.completed_jobs = 1

\* the requests that have computed their task id
Named == {r \in Requests : handlers[r].pc # "idle"}

\* the status a request's task has reached by the request's own writes
OwnStatus(r) ==
  IF handlers[r].pc = "running" THEN {"running"} ELSE {"completed", "failed"}

\* C38: the requests to the asynchronous endpoints have distinct task ids,
\* and the entry of every task whose status was stored is the status that
\* task itself stored: running until its thread ends, completed or failed
\* after.
C38_DistinctTaskIds ==
  /\ \A r1, r2 \in Named : r1 # r2 => handlers[r1].task_id # handlers[r2].task_id
  /\ \A r \in Requests :
       handlers[r].pc \in {"running", "done"} =>
         /\ handlers[r].task_id \in DOMAIN background_tasks
         /\ background_tasks[handlers[r].task_id] \in OwnStatus(r)

====
